---- MODULE Spec2Model ----
(***************************************************************************)
(* Implicit-topology streamline computation engine.                        *)
(*                                                                         *)
(* Two threads are modelled: the caller (the implicit_topology module,     *)
(* whose callbacks run on the render/GUI thread) and the background worker *)
(* of implicit_topology_computation.  The module's callbacks are           *)
(* translated from implicit_topology.cpp.  The orchestrator's member       *)
(* functions (start, terminate, get_results, run, set_result, destructor)  *)
(* are declared in implicit_topology_computation.h but their bodies are    *)
(* not part of the available sources; they follow the design document      *)
(* (section 4.5 and 5) and the member declarations of the header.          *)
(*                                                                         *)
(* A second specification, SpecBatch, follows one call of                  *)
(* streamlines_cuda_impl::update_labels statement by statement: the        *)
(* transient device buffers, the batch loop, the kernel and the copies     *)
(* back to the host arrays.                                                *)
(***************************************************************************)
EXTENDS Integers, Sequences, FiniteSets, TLC

(***************************************************************************)
(* Bounds of the model.                                                    *)
(***************************************************************************)
MaxSteps == 1      \* largest num_integration_steps (step budget) tried
MaxFutures == 4    \* shared states of promise/future pairs alive at once
MaxResume == 2     \* largest step budget of a paused and resumed computation
MaxRefine == 3     \* rounds of one computation that end with a refinement

\* A round aborted by a device error after its forward integration leaves the
\* forward arrays ahead of the backward arrays.  Failures are injected only
\* while the forward arrays are at most MaxAhead steps ahead.
MaxAhead == MaxSteps

(***************************************************************************)
(* Handles.  A std::shared_future is a reference to a shared state; a      *)
(* default-constructed one refers to none.  A read of the handle that      *)
(* overlaps a write of it is a data race; one of its outcomes is a handle  *)
(* made of parts of the old and of the new value.                          *)
(***************************************************************************)
Invalid == 0
Torn == -1
FutIds == 1..MaxFutures
Handles == FutIds \cup {Invalid, Torn}

StepRange == 0..MaxSteps
\* num_integration_steps_per_batch: 0, and values below, at and above the budget.
BatchSteps == 0..(MaxSteps + 1)

\* Default of the num_particles_per_batch parameter (an IntParam without a
\* lower limit: the user may also enter 0).
DefaultParticlesPerBatch == 10000
BatchSizes == {0, DefaultParticlesPerBatch}

\* implicit_topology_results, reduced to what the claims read: the finished
\* flag of computation_state and, standing for the vertex/label/distance/
\* termination arrays, the number of forward and backward integration steps
\* the arrays reflect.
\* st is "ready" for a result, "none" for the null pointer.  steps is the
\* step counter of computation_state.
Result(fin, n, f, b) == [st |-> "ready", finished |-> fin, steps |-> n, fwd |-> f, bwd |-> b]
NoResult == [st |-> "none", finished |-> FALSE, steps |-> 0, fwd |-> 0, bwd |-> 0]

\* Shared state of a promise/future pair: free (no handle refers to it),
\* pending, holding an exception, or ready with a result.
\* No save_computation_callback has run since the last change of the module.
NoSave == [called |-> FALSE, ok |-> FALSE, written |-> NoResult, writer_ok |-> FALSE]
FreeFuture == [NoResult EXCEPT !.st = "free"]
PendingFuture == [NoResult EXCEPT !.st = "pending"]
ErrorFuture == [NoResult EXCEPT !.st = "error"]

VARIABLES
    \* ---- implicit_topology (the module; caller thread) ----
    computation,            \* TRUE iff the unique_ptr holds a computation object
    computation_running,
    mesh_output_changed,
    data_output_changed,
    last_result,            \* handle
    previous_result,        \* NoResult (nullptr) or a ready result
    vertices,               \* vertices/indices/labels_*/distances_*/terminations_* of the module
    readonly_fixed,         \* GUI read-only state of method / timestep / max error
    readonly_variable,      \* GUI read-only state of step budget / batch sizes / thresholds
    cpc,                    \* position of the caller thread
    saved,                  \* outcome of save_computation_callback, if it ran last
    \* ---- implicit_topology_computation (the object and its worker) ----
    wpc,                    \* position of the worker thread
    num_threads,            \* worker threads spawned for the object and not yet finished
    terminate_computation,
    current_result,         \* handle
    writing,                \* handle the worker is storing into current_result, or Invalid
    promise,                \* handle of the shared state the worker fulfils next
    num_integration_steps_performed,
    progress_forward,       \* steps applied to positions/labels/distances/terminations_forward
    progress_backward,      \* same, backward arrays
    run_args,               \* arguments start() handed to run()
    futures,                \* shared states, by id
    aborted,                \* a round of this object was aborted by a device error
    \* ---- streamlines_cuda_impl::update_labels (one call at a time) ----
    host,                   \* the caller's arrays: source, labels, distances, terminations
    device,                 \* d_labels, d_dists, d_terminations, d_particles
    offset,                 \* loop variable of the batch loop
    upc,                    \* position inside update_labels
    uop,                    \* which of the four arrays the next allocation/copy handles
    call,                   \* arguments of the call and the field the instance holds
    input,                  \* the particles the arrays were filled with
    batch_sizes,            \* the two batch sizes the particle set is processed with
    run,                    \* 1: first batch size, 2: second batch size
    first_result,           \* the arrays after the call with the first batch size
    launches,               \* the kernel launches of the call so far: offset and size of each chunk
    \* ---- pause and resume of a computation ----
    budget,                 \* step budget and steps per round the user keeps set
    resumed_from,           \* the result the computation object was constructed from
    \* ---- refinement of the triangulated domain ----
    grid,                   \* particle arrays, triangulation and refinement parameters
    \* ---- one thread of compute_streamlines_kernel ----
    thread,                 \* kernel arguments, the thread's elements of the buffers, its locals
    \* ---- streamlines_cuda, its static implementation and the device symbols ----
    cuda,                   \* objects, instances, impl, const_data, textures, calls in progress
    \* ---- the convergence structures handed to the constructor ----
    ids                     \* point_ids and line_ids, as load_input filled them

modVars == <<computation, computation_running, mesh_output_changed, data_output_changed,
             last_result, previous_result, vertices, readonly_fixed, readonly_variable, cpc,
             saved>>
compVars == <<wpc, num_threads, terminate_computation, current_result, writing, promise,
              num_integration_steps_performed, progress_forward, progress_backward,
              run_args, futures, aborted>>
batchVars == <<host, device, offset, upc, uop, call, input, batch_sizes, run, first_result, launches>>
resumeVars == <<budget, resumed_from>>
refineVars == <<grid>>
kernelVars == <<thread, cuda, ids>>
vars == <<modVars, compVars, batchVars, resumeVars, refineVars, kernelVars>>

NoArgs == [total |-> 0, steps_per_batch |-> 0, particles_per_batch |-> 0]

Min(a, b) == IF a <= b THEN a ELSE b

\* Record views of the two objects, so that member functions can be written
\* as functions from state to state and composed within one callback.
Mod == [computation |-> computation, computation_running |-> computation_running,
        mesh_output_changed |-> mesh_output_changed,
        data_output_changed |-> data_output_changed,
        last_result |-> last_result, previous_result |-> previous_result,
        vertices |-> vertices, readonly_fixed |-> readonly_fixed,
        readonly_variable |-> readonly_variable]

Comp == [wpc |-> wpc, num_threads |-> num_threads,
         terminate_computation |-> terminate_computation,
         current_result |-> current_result, writing |-> writing, promise |-> promise,
         steps |-> num_integration_steps_performed,
         progress_forward |-> progress_forward, progress_backward |-> progress_backward,
         run_args |-> run_args, futures |-> futures, aborted |-> aborted]

\* A shared state is released when the last handle to it goes away, and it
\* has no identity beyond the handles that refer to it: the states in use are
\* kept at the ids 1, 2, ... in the order last_result, current_result, the
\* future being stored, the promise.
AddHandle(l, h) == IF h \in FutIds /\ \A i \in 1..Len(l) : l[i] # h THEN Append(l, h) ELSE l
InUse(m, c) ==
    AddHandle(AddHandle(AddHandle(AddHandle(<<>>, m.last_result), c.current_result),
                        c.writing), c.promise)
Renamed(l, h) == IF h \in FutIds THEN CHOOSE i \in 1..Len(l) : l[i] = h ELSE h
Gc(f, l) == [i \in FutIds |-> IF i <= Len(l) THEN f[l[i]] ELSE FreeFuture]

SetMod(m) ==
    /\ computation' = m.computation
    /\ computation_running' = m.computation_running
    /\ mesh_output_changed' = m.mesh_output_changed
    /\ data_output_changed' = m.data_output_changed
    /\ previous_result' = m.previous_result
    /\ vertices' = m.vertices
    /\ readonly_fixed' = m.readonly_fixed
    /\ readonly_variable' = m.readonly_variable
    /\ saved' = NoSave

SetComp(c) ==
    /\ wpc' = c.wpc
    /\ num_threads' = c.num_threads
    /\ terminate_computation' = c.terminate_computation
    /\ num_integration_steps_performed' = c.steps
    /\ progress_forward' = c.progress_forward
    /\ progress_backward' = c.progress_backward
    /\ run_args' = c.run_args
    /\ aborted' = c.aborted

\* The state after a step that leaves the module as m and the computation as c.
CommitObjects(m, c) ==
    LET l == InUse(m, c) IN
    /\ SetMod(m)
    /\ SetComp(c)
    /\ last_result' = Renamed(l, m.last_result)
    /\ current_result' = Renamed(l, c.current_result)
    /\ writing' = Renamed(l, c.writing)
    /\ promise' = Renamed(l, c.promise)
    /\ futures' = Gc(c.futures, l)
Commit(m, c) ==
    /\ CommitObjects(m, c)
    /\ UNCHANGED <<batchVars, resumeVars, refineVars, kernelVars>>

\* The worker is between thread start and thread exit.
Active(c) == c.wpc \notin {"none", "exited"}
WorkerActive == Active(Comp)
\* The caller is blocked in std::thread::join.
Joining == cpc \in {"join_stop", "join_reset", "join_load", "join_destroy"}

\* std::promise constructor: a fresh shared state (the lowest free id).
NewFuture(f) == CHOOSE i \in FutIds : f[i].st = "free" /\ \A j \in FutIds : j < i => f[j].st # "free"

(***************************************************************************)
(* implicit_topology_computation: member functions.                        *)
(***************************************************************************)

\* Constructor (from input): no thread, no published future, nothing integrated.
constructor(f) ==
    [wpc |-> "none", num_threads |-> 0, terminate_computation |-> FALSE,
     current_result |-> Invalid, writing |-> Invalid, promise |-> Invalid,
     steps |-> 0, progress_forward |-> 0, progress_backward |-> 0,
     run_args |-> NoArgs, futures |-> f, aborted |-> FALSE]

\* Constructor from a previous result: arrays and step counter are taken over.
resume_counter_only(f, prev) == [constructor(f) EXCEPT !.steps = prev.steps]
resume_constructor(f, prev) ==
    [constructor(f) EXCEPT !.steps = prev.steps, !.progress_forward = prev.fwd,
                           !.progress_backward = prev.bwd]

\* start(): spawns the worker if none is running, else does nothing.  A worker
\* that has finished is joined first.  The first promise is made here and its
\* future becomes current_result before the thread exists.
start_spawns_always(c) == TRUE
start_spawns(c) == ~Active(c)
start(c, total, spb, ppb) ==
    IF ~start_spawns(c)
    THEN c
    ELSE LET p == NewFuture(c.futures) IN
         [c EXCEPT !.wpc = "cond", !.num_threads = @ + 1, !.terminate_computation = FALSE,
                   !.promise = p, !.current_result = p, !.futures[p] = PendingFuture,
                   !.run_args = [total |-> total, steps_per_batch |-> spb,
                                 particles_per_batch |-> ppb]]

\* terminate(): set the cancel flag, then join if the thread is joinable.
\* The caller waits in join exactly while the worker has not exited.
terminate_without_join(c) == FALSE
terminate_blocks(c) == Active(c)
terminate_request(c) == [c EXCEPT !.terminate_computation = TRUE]
terminate(c) == [terminate_request(c) EXCEPT !.wpc = IF @ = "exited" THEN "none" ELSE @]

\* Destructor: terminate(), then the members are released.
destructor_without_join(c) == FALSE
destructor_blocks(c) == terminate_blocks(c)
destructor(c) ==
    LET t == terminate(c) IN
    [constructor(c.futures) EXCEPT !.wpc = t.wpc, !.num_threads = t.num_threads,
                                   !.terminate_computation = t.terminate_computation]

\* get_results(): a copy of current_result.  The member is a plain
\* std::shared_future and the class has no mutex or atomic: a copy taken while
\* the worker is storing a new future races with the store.
get_results(c) ==
    IF c.writing # Invalid THEN {c.current_result, c.writing, Torn} ELSE {c.current_result}

\* run(): loop condition and steps of one round.
loop_condition(c) == c.steps < c.run_args.total /\ ~c.terminate_computation
num_steps(c) == Min(c.run_args.steps_per_batch, c.run_args.total - c.steps)

\* set_result(): the promise receives a copy of the arrays and counters.
set_result_unfinished(c, finished) ==
    [c EXCEPT !.futures[c.promise] =
        Result(FALSE, c.steps, c.progress_forward, c.progress_backward)]
set_result(c, finished) ==
    [c EXCEPT !.futures[c.promise] =
        Result(finished, c.steps, c.progress_forward, c.progress_backward)]

\* streamlines_cuda_impl::update_labels seen from its caller: with at least one
\* particle the batch loop advances its offset by the batch size, so a batch
\* size of 0 never leaves the loop; any allocation or copy may fail and throw.
\* The cancel flag is not visible to it: all steps are applied to all particles.
update_labels_outcomes(ppb) == IF ppb = 0 THEN {"throw", "spin"} ELSE {"throw", "ok"}
update_labels_cancellable(n, cancel) == IF cancel THEN 0 ELSE n
update_labels_progress(n, cancel) == n

(***************************************************************************)
(* The worker thread: implicit_topology_computation::run.                  *)
(***************************************************************************)
WorkerStep(c) == /\ Commit(Mod, c)
                 /\ UNCHANGED cpc

\* Loop head: the only place where the cancel flag is read.
W_LoopCond ==
    /\ wpc = "cond"
    /\ WorkerStep([Comp EXCEPT !.wpc = IF loop_condition(Comp) THEN "fwd" ELSE "final"])

\* A device error: the exception is stored in the promise and the thread ends.
W_Throw(c) == [c EXCEPT !.futures[c.promise] = ErrorFuture, !.promise = Invalid,
                        !.wpc = "exiting", !.aborted = TRUE]

\* The outcomes of the call of update_labels the worker is about to make.
Outcomes(c) == {o \in update_labels_outcomes(c.run_args.particles_per_batch) :
                   o = "throw" => c.progress_forward - c.progress_backward <= MaxAhead}

\* Forward integration of the round: update_labels(..., sign = +1, ...).
W_Forward ==
    /\ wpc = "fwd"
    /\ \E o \in Outcomes(Comp) :
          WorkerStep(CASE o = "ok" ->
                            [Comp EXCEPT !.wpc = "bwd",
                                !.progress_forward =
                                    @ + update_labels_progress(num_steps(Comp), terminate_computation)]
                       [] o = "throw" -> W_Throw(Comp)
                       [] o = "spin" -> [Comp EXCEPT !.wpc = "spin"])

\* Backward integration of the round, then the step counter is advanced and
\* the grid is refined (refinement touches only state the worker owns).
W_Backward ==
    /\ wpc = "bwd"
    /\ \E o \in Outcomes(Comp) :
          WorkerStep(CASE o = "ok" ->
                            [Comp EXCEPT !.wpc = "publish",
                                !.progress_backward =
                                    @ + update_labels_progress(num_steps(Comp), terminate_computation),
                                !.steps = @ + num_steps(Comp)]
                       [] o = "throw" -> W_Throw(Comp)
                       [] o = "spin" -> [Comp EXCEPT !.wpc = "spin"])

\* End of a round: set_result(promise, false) publishes the snapshot ...
W_Fulfil ==
    /\ wpc = "publish"
    /\ WorkerStep([set_result(Comp, FALSE) EXCEPT !.wpc = "promise"])

\* ... a fresh promise is constructed and the store of its future into
\* current_result begins ...
reused_promise(c) == c.promise
new_promise(c) == NewFuture(c.futures)
W_StoreBegin ==
    /\ wpc = "promise"
    /\ LET p == new_promise(Comp) IN
       WorkerStep([Comp EXCEPT !.wpc = "store", !.writing = p, !.promise = p,
                               !.futures[p] = PendingFuture])

\* ... and ends.
W_StoreEnd ==
    /\ wpc = "store"
    /\ WorkerStep([Comp EXCEPT !.wpc = "cond", !.current_result = writing, !.writing = Invalid])

\* Loop exit: set_result(promise, true).
W_Final ==
    /\ wpc = "final"
    /\ WorkerStep([set_result(Comp, TRUE) EXCEPT !.wpc = "exiting", !.promise = Invalid])

\* The thread function returns.
W_Exit ==
    /\ wpc = "exiting"
    /\ WorkerStep([Comp EXCEPT !.wpc = "exited", !.num_threads = @ - 1, !.run_args = NoArgs])

\* update_labels with a batch size of 0: the offset does not advance.
W_Spin ==
    /\ wpc = "spin"
    /\ WorkerStep(Comp)

Worker == \/ W_LoopCond \/ W_Forward \/ W_Backward \/ W_Fulfil
          \/ W_StoreBegin \/ W_StoreEnd \/ W_Final \/ W_Exit \/ W_Spin

(***************************************************************************)
(* implicit_topology: the module's callbacks (caller thread).              *)
(* Each is a function from the module state m and the computation state c  *)
(* to the set of possible results [m, c].                                  *)
(***************************************************************************)
set_readonly_fixed_parameters(m, ro) == [m EXCEPT !.readonly_fixed = ro]
set_readonly_variable_parameters(m, ro) == [m EXCEPT !.readonly_variable = ro]

\* initialize_computation: creates the object if there is none and the input loads.
initialize_computation_unchecked(m, c, input_ok) ==
    IF ~m.computation
    THEN [ok |-> TRUE, c |-> constructor(c.futures),
          m |-> set_readonly_fixed_parameters([m EXCEPT !.computation = TRUE], TRUE)]
    ELSE [ok |-> TRUE, m |-> m, c |-> c]
initialize_computation(m, c, input_ok) ==
    IF ~m.computation
    THEN IF input_ok
         THEN [ok |-> TRUE, c |-> constructor(c.futures),
               m |-> set_readonly_fixed_parameters([m EXCEPT !.computation = TRUE], TRUE)]
         ELSE [ok |-> FALSE, m |-> m, c |-> c]
    ELSE [ok |-> TRUE, m |-> m, c |-> c]

start_computation_callback(m, c, input_ok, total, spb, ppb) ==
    LET i == initialize_computation(m, c, input_ok) IN
    IF ~i.ok
    THEN {[ok |-> FALSE, m |-> m, c |-> c]}
    ELSE LET c1 == start(i.c, total, spb, ppb) IN
         {[ok |-> TRUE, c |-> c1,
           m |-> set_readonly_variable_parameters(
                     [i.m EXCEPT !.last_result = h, !.computation_running = TRUE], TRUE)]
            : h \in get_results(c1)}

\* update_results: consumes last_result when it is ready and both outputs
\* have taken the previous one; last_result.get() of a stored exception throws
\* before anything is assigned.
update_results_unflagged(m, c) ==
    IF /\ m.computation_running
       /\ m.last_result \in FutIds
       /\ c.futures[m.last_result].st = "ready"
    THEN LET result == c.futures[m.last_result]
             m1 == [m EXCEPT !.vertices = result,
                             !.computation_running = ~result.finished]
             m2 == IF result.finished THEN set_readonly_variable_parameters(m1, FALSE) ELSE m1
         IN {[m2 EXCEPT !.last_result = h, !.previous_result = result,
                        !.mesh_output_changed = TRUE, !.data_output_changed = TRUE]
               : h \in get_results(c)}
    ELSE {m}
update_results(m, c) ==
    IF /\ m.computation_running
       /\ ~(m.mesh_output_changed \/ m.data_output_changed)
       /\ m.last_result \in FutIds
       /\ c.futures[m.last_result].st = "ready"
    THEN LET result == c.futures[m.last_result]
             m1 == [m EXCEPT !.vertices = result,
                             !.computation_running = ~result.finished]
             m2 == IF result.finished THEN set_readonly_variable_parameters(m1, FALSE) ELSE m1
         IN {[m2 EXCEPT !.last_result = h, !.previous_result = result,
                        !.mesh_output_changed = TRUE, !.data_output_changed = TRUE]
               : h \in get_results(c)}
    ELSE {m}

get_triangle_data_callback(m, c) ==
    {[m1 EXCEPT !.mesh_output_changed = FALSE] : m1 \in update_results(m, c)}

\* Without data (the label/distance/termination pointers are null) the
\* callback returns before update_results.
get_data_data_callback(m, c) ==
    IF m.vertices.st = "none"
    THEN {m}
    ELSE {[m1 EXCEPT !.data_output_changed = FALSE] : m1 \in update_results(m, c)}

\* stop_computation_callback, reset_computation_callback and the destructor
\* call terminate(), which may wait for the worker: *_blocks tells whether
\* the callback has to wait, *_callback is its whole effect once it need not.
stop_blocks(m, c) == m.computation /\ m.computation_running /\ terminate_blocks(c)
stop_computation_callback(m, c) ==
    [c |-> IF m.computation /\ m.computation_running THEN terminate(c) ELSE c,
     m |-> set_readonly_variable_parameters([m EXCEPT !.computation_running = FALSE], FALSE)]

reset_blocks(m, c) == stop_blocks(m, c) \/ (m.computation /\ destructor_blocks(c))
\* A reset that leaves the fixed parameters read-only.
reset_computation_callback_locked(m, c) ==
    LET s == stop_computation_callback(m, c) IN
    [c |-> IF m.computation THEN destructor(s.c) ELSE s.c,
     m |-> set_readonly_variable_parameters(
               [s.m EXCEPT !.computation = FALSE, !.previous_result = NoResult], FALSE)]
reset_computation_callback(m, c) ==
    LET s == stop_computation_callback(m, c) IN
    [c |-> IF m.computation THEN destructor(s.c) ELSE s.c,
     m |-> set_readonly_variable_parameters(
               set_readonly_fixed_parameters(
                   [s.m EXCEPT !.computation = FALSE, !.previous_result = NoResult],
                   FALSE), FALSE)]

\* A load that resets the module only once the results and the input are read.
load_computation_callback_read_first(m, c, read_ok, input_ok, prev) ==
    LET r == reset_computation_callback(m, c) IN
    IF ~read_ok \/ ~input_ok
    THEN [m |-> m, c |-> c]
    ELSE [c |-> resume_constructor(r.c.futures, prev),
          m |-> set_readonly_fixed_parameters([r.m EXCEPT !.computation = TRUE], TRUE)]
\* load_computation_callback with a connected reader, after the reset.
load_computation_callback(m, c, read_ok, input_ok, prev) ==
    LET r == reset_computation_callback(m, c) IN
    IF ~read_ok \/ ~input_ok
    THEN r
    ELSE [c |-> resume_constructor(r.c.futures, prev),
          m |-> set_readonly_fixed_parameters([r.m EXCEPT !.computation = TRUE], TRUE)]

\* save_computation_callback: what it hands to the result writer (NoResult:
\* the writer is not invoked) and what it returns.
save_computation_callback_unguarded(m, writer_ok) ==
    IF m.previous_result = NoResult
    THEN [called |-> TRUE, ok |-> FALSE, written |-> NoResult, writer_ok |-> writer_ok]
    ELSE [called |-> TRUE, ok |-> writer_ok, written |-> m.previous_result,
          writer_ok |-> writer_ok]
save_computation_callback(m, writer_ok) ==
    IF m.computation_running \/ m.previous_result = NoResult
    THEN [called |-> TRUE, ok |-> FALSE, written |-> NoResult, writer_ok |-> writer_ok]
    ELSE [called |-> TRUE, ok |-> writer_ok, written |-> m.previous_result,
          writer_ok |-> writer_ok]

\* ~implicit_topology: terminate() if there is a computation, then the members go.
destroy_blocks(m, c) == m.computation /\ (terminate_blocks(c) \/ destructor_blocks(c))
module_destructor(m, c) ==
    [c |-> IF m.computation THEN destructor(terminate(c)) ELSE c,
     m |-> [m EXCEPT !.computation = FALSE, !.previous_result = NoResult,
                     !.last_result = Invalid, !.vertices = NoResult]]

(***************************************************************************)
(* The caller thread: the framework invokes the module's callbacks.        *)
(***************************************************************************)
Apply(r) == Commit(r.m, r.c)

\* The callback waits in terminate(): the flag is set, the join has begun.
Block(at) == /\ Commit(Mod, terminate_request(Comp))
             /\ cpc' = at

LoadedResults == {Result(TRUE, k, k, k) : k \in StepRange}

\* The inputs of a press of the start button: whether the input loads (read
\* only when there is no computation yet) and the three integer parameters
\* (read by start() only when it spawns a worker).
StartInputs ==
    {[input_ok |-> i, total |-> t, spb |-> s, ppb |-> p] :
        i \in IF computation THEN {TRUE} ELSE BOOLEAN,
        t \in IF WorkerActive THEN {0} ELSE StepRange,
        s \in IF WorkerActive THEN {0} ELSE BatchSteps,
        p \in IF WorkerActive THEN {0} ELSE BatchSizes}

StartCallback ==
    /\ cpc = "idle"
    /\ \E in \in StartInputs :
          \E r \in start_computation_callback(Mod, Comp, in.input_ok, in.total, in.spb, in.ppb) :
              Apply(r)
    /\ UNCHANGED cpc

GetTriangleData ==
    /\ cpc = "idle"
    /\ \E m \in get_triangle_data_callback(Mod, Comp) : Apply([m |-> m, c |-> Comp])
    /\ UNCHANGED cpc

GetDataData ==
    /\ cpc = "idle"
    /\ \E m \in get_data_data_callback(Mod, Comp) : Apply([m |-> m, c |-> Comp])
    /\ UNCHANGED cpc

StopCallback ==
    /\ cpc = "idle"
    /\ IF stop_blocks(Mod, Comp)
       THEN Block("join_stop")
       ELSE Apply(stop_computation_callback(Mod, Comp)) /\ UNCHANGED cpc

ResetCallback ==
    /\ cpc = "idle"
    /\ IF reset_blocks(Mod, Comp)
       THEN Block("join_reset")
       ELSE Apply(reset_computation_callback(Mod, Comp)) /\ UNCHANGED cpc

\* With no reader connected the callback only logs a warning.
LoadCallback ==
    /\ cpc = "idle"
    /\ \E connected \in BOOLEAN :
          IF ~connected
          THEN UNCHANGED vars
          ELSE IF reset_blocks(Mod, Comp)
               THEN Block("join_load")
               ELSE /\ \E read_ok, input_ok \in BOOLEAN, prev \in LoadedResults :
                         Apply(load_computation_callback(Mod, Comp, read_ok, input_ok, prev))
                    /\ UNCHANGED cpc

\* The save button: the module itself is left as it is.
SaveCallback ==
    /\ cpc = "idle"
    /\ \E writer_ok \in BOOLEAN : saved' = save_computation_callback(Mod, writer_ok)
    /\ UNCHANGED <<computation, computation_running, mesh_output_changed,
                   data_output_changed, last_result, previous_result, vertices,
                   readonly_fixed, readonly_variable, cpc>>
    /\ UNCHANGED <<compVars, batchVars, resumeVars, refineVars, kernelVars>>

DestroyModule ==
    /\ cpc = "idle"
    /\ IF destroy_blocks(Mod, Comp)
       THEN Block("join_destroy")
       ELSE Apply(module_destructor(Mod, Comp)) /\ cpc' = "destroyed"

\* std::thread::join returns once the worker has exited; the callback completes.
JoinReturn ==
    /\ Joining
    /\ wpc = "exited"
    /\ CASE cpc = "join_stop" ->
              Apply(stop_computation_callback(Mod, Comp)) /\ cpc' = "idle"
         [] cpc = "join_reset" ->
              Apply(reset_computation_callback(Mod, Comp)) /\ cpc' = "idle"
         [] cpc = "join_load" ->
              /\ \E read_ok, input_ok \in BOOLEAN, prev \in LoadedResults :
                    Apply(load_computation_callback(Mod, Comp, read_ok, input_ok, prev))
              /\ cpc' = "idle"
         [] cpc = "join_destroy" ->
              Apply(module_destructor(Mod, Comp)) /\ cpc' = "destroyed"

Caller == \/ StartCallback \/ GetTriangleData \/ GetDataData \/ StopCallback
          \/ ResetCallback \/ LoadCallback \/ DestroyModule \/ JoinReturn

(***************************************************************************)
(* streamlines_cuda: the GPU backend.                                      *)
(*                                                                         *)
(* Positions live on an integer lattice with CellSize units per grid cell, *)
(* field vectors are axis-aligned unit vectors or zero, and distances are  *)
(* kept squared: with these inputs every value the kernel computes is an   *)
(* integer, and every comparison it makes has the outcome it has in the    *)
(* floating-point code.                                                    *)
(***************************************************************************)
MaxParticles == 7      \* particles in the arrays handed to update_labels
MaxBatch == 3          \* largest num_particles_per_batch tried
MaxThreadSteps == 2   \* integration steps of the kernel thread followed step by step
MaxThreadRounds == 2  \* kernel calls on the particle of that thread
MaxKernelSteps == 1    \* largest num_integration_steps of one call
\* The count of rejected attempts of one step of advectRK45 is kept up to here.
RetryBound == 12

Resolution == 3        \* grid nodes per axis
CellSize == 6          \* cellx = celly, in lattice units
TimeScale == 1         \* integration_timestep
FltMax == 1000000      \* FLT_MAX
ThreadsPerBlock == 64
\* unsigned int and int keep their wrap-around at a scaled-down width:
\* OffsetModulus stands for 2^32.
OffsetModulus == 8
\* static_cast<unsigned int>(x) and the conversion unsigned int -> int.
to_unsigned(x) == x % OffsetModulus
to_int(x) == IF x >= OffsetModulus \div 2 THEN x - OffsetModulus ELSE x
DomainMax == CellSize * (Resolution - 1)

Abs(x) == IF x < 0 THEN -x ELSE x
Max(a, b) == IF a >= b THEN a ELSE b
Clamp(x, lo, hi) == Max(lo, Min(x, hi))
VecAdd(a, b) == <<a[1] + b[1], a[2] + b[2]>>
VecScale(k, v) == <<k * v[1], k * v[2]>>
\* length() of a field vector (axis-aligned: the 1-norm is the length).
length(v) == Abs(v[1]) + Abs(v[2])
\* Squared length of pos - p.
sqdist(a, b) == (a[1] - b[1]) * (a[1] - b[1]) + (a[2] - b[2]) * (a[2] - b[2])

\* A label variable as wide as an int.
short_as_int(x) == x
\* Conversion int -> short, as the kernel applies it to labels.
short(x) == ((x + 32768) % 65536) - 32768

\* The vector fields an instance may hold, by grid node.
Fields == {"uniform", "sink"}
FieldValue(field, node) ==
    CASE field = "uniform" -> <<1, 0>>
      [] field = "sink" -> IF 2 * node[1] < Resolution - 1 THEN <<1, 0>>
                           ELSE IF 2 * node[1] > Resolution - 1 THEN <<-1, 0>>
                           ELSE <<0, 0>>
      [] field = "shear" -> IF node[2] >= 1 THEN <<0, -1>> ELSE <<1, 0>>
      [] field = "fast" -> <<2, 0>>
\* The fields of the runs of the adaptive integrator: the shear field turns
\* at a texel border, the fast field has vectors of length 2.
AdaptiveFields == Fields \cup {"shear", "fast"}

\* pos_to_texcoords, then the fetch from the velocity texture: the texture is
\* created with point filtering and border addressing, so the fetch yields
\* the texel floor(texcoord), the node nearest to pos, and zero outside the
\* texture.
pos_to_texcoords(pos) == <<(pos[1] + CellSize \div 2) \div CellSize,
                           (pos[2] + CellSize \div 2) \div CellSize>>
velocity(field, pos) ==
    LET node == pos_to_texcoords(pos)
    IN IF node[1] \in 0..(Resolution - 1) /\ node[2] \in 0..(Resolution - 1)
       THEN FieldValue(field, node)
       ELSE <<0, 0>>

\* Convergence structures: points and line segments, each with an id.
DefaultIds == [point_ids |-> <<7>>, line_ids |-> <<9>>]
ConvergencePoints == <<[p |-> <<6, 6>>, id |-> ids.point_ids[1]]>>
ConvergenceLines == <<[p0 |-> <<12, 0>>, p1 |-> <<12, 12>>, id |-> ids.line_ids[1]]>>

\* h_ids[i] = static_cast<float>(point_ids[i]): the nearest number with a
\* significand of 24 bits, ties to even.  Floats that hold whole numbers are
\* written as these numbers.
RECURSIVE ulp(_)
ulp(a) == IF a < 16777216 THEN 1 ELSE 2 * ulp(a \div 2)
h_ids(id) ==
    LET a == Abs(id)
        q == a \div ulp(a)
        r == a % ulp(a)
        rounded == IF 2 * r > ulp(a) \/ (2 * r = ulp(a) /\ q % 2 = 1)
                   THEN (q + 1) * ulp(a) ELSE q * ulp(a)
    IN IF id < 0 THEN 0 - rounded ELSE rounded

\* distance_point_line, squared, for axis-aligned segments.
distance_point_line(pos, p0, p1) ==
    sqdist(pos, <<Clamp(pos[1], Min(p0[1], p1[1]), Max(p0[1], p1[1])),
                  Clamp(pos[2], Min(p0[2], p1[2]), Max(p0[2], p1[2]))>>)

\* advectRK4 with the step scale taken from the step-size texture.
advectRK4_hinted(field, pos, delta, sign) ==
    LET node == pos_to_texcoords(pos)
        hint == IF node[1] \in 0..(Resolution - 1) /\ node[2] \in 0..(Resolution - 1)
                THEN 8 ELSE 0   \* cell_diag, in lattice units
        h == hint * delta * sign
        half(k) == <<k[1] \div 2, k[2] \div 2>>
        k1 == VecScale(h, velocity(field, pos))
        k2 == VecScale(h, velocity(field, VecAdd(pos, half(k1))))
        k3 == VecScale(h, velocity(field, VecAdd(pos, half(k2))))
        k4 == VecScale(h, velocity(field, VecAdd(pos, k3)))
        sum == VecAdd(VecAdd(k1, VecScale(2, k2)), VecAdd(VecScale(2, k3), k4))
    IN VecAdd(pos, <<sum[1] \div 6, sum[2] \div 6>>)
\* advectRK4: the step scale is min_cellsize / |v(pos)| * delta * sign.
advectRK4(field, pos, delta, sign) ==
    LET max_velocity == length(velocity(field, pos))
        steps_per_cell == IF max_velocity > 0 THEN CellSize \div max_velocity ELSE 0
        h == steps_per_cell * delta * sign
        half(k) == <<k[1] \div 2, k[2] \div 2>>
        k1 == VecScale(h, velocity(field, pos))
        k2 == VecScale(h, velocity(field, VecAdd(pos, half(k1))))
        k3 == VecScale(h, velocity(field, VecAdd(pos, half(k2))))
        k4 == VecScale(h, velocity(field, VecAdd(pos, k3)))
        sum == VecAdd(VecAdd(k1, VecScale(2, k2)), VecAdd(VecScale(2, k3), k4))
    IN VecAdd(pos, <<sum[1] \div 6, sum[2] \div 6>>)

\* update_label_and_dist(label_conv_structure, dist_conv_structure, label, distance):
\* the float id arrives as an int (a whole number below 2^31 arrives as
\* itself) and is assigned to the short.
update_label_and_dist_on_ties(label_conv_structure, dist_conv_structure, ld) ==
    IF dist_conv_structure <= ld.dist
    THEN [label |-> short(label_conv_structure), dist |-> dist_conv_structure]
    ELSE ld
update_label_and_dist(label_conv_structure, dist_conv_structure, ld) ==
    IF dist_conv_structure < ld.dist
    THEN [label |-> short(label_conv_structure), dist |-> dist_conv_structure]
    ELSE ld

\* update_label_and_dist(num_convergence_points, num_convergence_lines, pos, label, distance)
RECURSIVE update_points(_, _, _)
update_points(k, pos, ld) ==
    IF k > Len(ConvergencePoints) THEN ld
    ELSE update_points(k + 1, pos,
             update_label_and_dist(h_ids(ConvergencePoints[k].id),
                                   sqdist(pos, ConvergencePoints[k].p), ld))
RECURSIVE update_lines(_, _, _)
update_lines(k, pos, ld) ==
    IF k > Len(ConvergenceLines) THEN ld
    ELSE update_lines(k + 1, pos,
             update_label_and_dist(h_ids(ConvergenceLines[k].id),
                 distance_point_line(pos, ConvergenceLines[k].p0, ConvergenceLines[k].p1), ld))
update_label_and_dist_structures(pos, ld) == update_lines(1, pos, update_points(1, pos, ld))

\* Squared distance to the nearest convergence structure.
nearest_structure(pos) == update_label_and_dist_structures(pos, [label |-> 0, dist |-> FltMax]).dist

\* The code of a particle whose position a step left unchanged: the distance
\* to the nearest structure against 0.5f * fminf(cell_size.x, cell_size.y).
stagnated_termination_diagonal(pos) ==
    IF 4 * nearest_structure(pos) < 2 * CellSize * CellSize THEN 3 ELSE 2
stagnated_termination(pos) ==
    IF 4 * nearest_structure(pos) < CellSize * CellSize THEN 3 ELSE 2

\* pos_01 outside [0, 1]^2.
outside_closed(pos) == pos[1] <= 0 \/ pos[1] >= DomainMax \/ pos[2] <= 0 \/ pos[2] >= DomainMax
outside(pos) == pos[1] < 0 \/ pos[1] > DomainMax \/ pos[2] < 0 \/ pos[2] > DomainMax

\* The loop over the integration steps of one thread of the kernel.
RECURSIVE integrate(_, _, _, _)
integrate(field, sign, s, j) ==
    IF j = 0 THEN s
    ELSE LET pos == advectRK4(field, s.pos, TimeScale, sign)
             ld == update_label_and_dist_structures(pos, [label |-> s.label, dist |-> s.dist])
             t == [pos |-> pos, label |-> ld.label, dist |-> ld.dist, termination |-> s.termination]
         IN IF pos = s.pos
            THEN [t EXCEPT !.termination = stagnated_termination(pos)]
            ELSE IF outside(pos)
                 THEN [t EXCEPT !.termination = 1]
                 ELSE integrate(field, sign, t, j - 1)

\* One thread of compute_streamlines_kernel past the guard, for the method
\* advectRK4: p holds the thread's elements of the four device buffers.
kernel_thread(field, sign, n_steps, p) ==
    LET ld == update_label_and_dist_structures(p.pos, [label |-> short(p.label), dist |-> p.dist])
    IN integrate(field, sign,
                 [pos |-> p.pos, label |-> ld.label, dist |-> ld.dist,
                  termination |-> short(p.termination)], n_steps)

\* compute_streamlines: the grid it launches, and the kernel's effect on the
\* device buffers.  Threads with gid >= num_particles and threads of
\* terminated particles write nothing.
num_blocks(num_particles) ==
    num_particles \div ThreadsPerBlock + (IF num_particles % ThreadsPerBlock = 0 THEN 0 ELSE 1)
compute_streamlines(dev, num_particles, n_steps, sign, field) ==
    LET runs(gid) == /\ gid < num_blocks(num_particles) * ThreadsPerBlock
                     /\ gid < num_particles
                     /\ dev.d_terminations.data[gid + 1] = 0
        out(gid) == kernel_thread(field, sign, n_steps,
                        [pos |-> dev.d_particles.data[gid + 1],
                         label |-> dev.d_labels.data[gid + 1],
                         dist |-> dev.d_dists.data[gid + 1],
                         termination |-> dev.d_terminations.data[gid + 1]])
    IN [dev EXCEPT
          !.d_labels.data = [i \in DOMAIN @ |-> IF runs(i - 1) THEN out(i - 1).label ELSE @[i]],
          !.d_dists.data = [i \in DOMAIN @ |-> IF runs(i - 1) THEN out(i - 1).dist ELSE @[i]],
          !.d_terminations.data =
              [i \in DOMAIN @ |-> IF runs(i - 1) THEN out(i - 1).termination ELSE @[i]],
          !.d_particles.data = [i \in DOMAIN @ |-> IF runs(i - 1) THEN out(i - 1).pos ELSE @[i]]]

(***************************************************************************)
(* streamlines_cuda and its process-wide implementation instance.          *)
(*                                                                         *)
(* Every constructor call makes a streamlines_cuda_impl, whose constructor *)
(* uploads the constants and texture handles to the device symbols, and    *)
(* then assigns it to the static unique_ptr impl, which destroys the       *)
(* instance held before.  update_labels of any object calls through impl.  *)
(* A configuration stands for the arguments of one constructor call.       *)
(***************************************************************************)
MaxObjects == 3        \* streamlines_cuda objects constructed
MaxCallLaunches == 2   \* kernel launches of one call of update_labels
Configurations == 1..2
CudaWorkers == 1..2
NoCudaCall == [pc |-> "idle", via |-> 0, this |-> 0, seen |-> 0, launches |-> 0]
NoLaunch == [worker |-> 0, via |-> 0, constants |-> 0, field |-> 0, method |-> 0]
\* static std::unique_ptr<streamlines_cuda_impl> impl = nullptr; nothing
\* uploaded, no object.
NoCuda == [impl |-> 0, instances |-> <<>>, objects |-> 0, making |-> 0,
           const_data |-> 0, textures |-> 0,
           calls |-> [w \in CudaWorkers |-> NoCudaCall], last |-> NoLaunch]
CudaStep == UNCHANGED <<modVars, compVars, batchVars, resumeVars, refineVars, thread, ids>>
\* std::make_unique<streamlines_cuda_impl>(...): the constructor uploads
\* const_data and the texture objects of the new instance.
S_Make ==
    /\ cuda.making = 0 /\ Len(cuda.instances) < MaxObjects
    /\ \E c \in Configurations :
        cuda' = [cuda EXCEPT !.instances = Append(@, [config |-> c, alive |-> TRUE]),
                             !.const_data = c,
                             !.textures = Len(cuda.instances) + 1,
                             !.making = Len(cuda.instances) + 1]
    /\ CudaStep
\* impl = ...: the unique_ptr takes the new instance and destroys the one it
\* held, with its textures and device arrays; the constructor returns.
S_Assign ==
    /\ cuda.making # 0
    /\ cuda' = [cuda EXCEPT !.impl = cuda.making, !.making = 0, !.objects = @ + 1,
                            !.instances = [i \in DOMAIN @ |->
                                IF i = cuda.impl THEN [@[i] EXCEPT !.alive = FALSE]
                                ELSE @[i]]]
    /\ CudaStep
\* The instance a call through object o runs on: every object had its own.
dispatch_own(c, o) == o
\* The instance a call through object o runs on: impl->update_labels(...).
dispatch(c, o) == c.impl
\* streamlines_cuda::update_labels through the object o, on a worker.
S_Call(w) ==
    /\ cuda.calls[w].pc = "idle"
    /\ \E o \in 1..cuda.objects :
        cuda' = [cuda EXCEPT !.calls[w] = [pc |-> "running", via |-> o,
                                           this |-> dispatch(cuda, o),
                                           seen |-> cuda.objects, launches |-> 0]]
    /\ CudaStep
\* compute_streamlines: the kernel reads const_data and textures, the host
\* reads this->method and the numbers of structures.  The members of a
\* destroyed instance are read from freed memory: any value.
S_Launch(w) ==
    /\ cuda.calls[w].pc = "running" /\ cuda.calls[w].launches < MaxCallLaunches
    /\ LET this == cuda.instances[cuda.calls[w].this]
           members == IF this.alive THEN {this.config} ELSE Configurations
       IN \E m \in members :
           cuda' = [cuda EXCEPT !.calls[w].launches = @ + 1,
                                !.last = [worker |-> w, via |-> cuda.calls[w].via,
                                          constants |-> cuda.const_data,
                                          field |-> cuda.instances[cuda.textures].config,
                                          method |-> m]]
    /\ CudaStep
\* update_labels returns.
S_Return(w) ==
    /\ cuda.calls[w].pc = "running"
    /\ cuda' = [cuda EXCEPT !.calls[w] = NoCudaCall]
    /\ CudaStep
StreamlinesCuda == \/ S_Make \/ S_Assign
                   \/ \E w \in CudaWorkers : S_Call(w) \/ S_Launch(w) \/ S_Return(w)

(***************************************************************************)
(* One thread of compute_streamlines_kernel, statement by statement, over  *)
(* the kernel calls of successive rounds on the same particle: g is the    *)
(* thread's element of the four buffers, l its local variables.            *)
(***************************************************************************)
KernelStep == UNCHANGED <<modVars, compVars, batchVars, resumeVars, refineVars, cuda, ids>>
\* if (gid < num_particles && terminations[gid] == 0), then the locals.
K_Guard_unguarded ==
    /\ thread.kpc = "guard"
    /\ thread' = [thread EXCEPT !.kpc = "init", !.l = thread.g]
    /\ KernelStep
K_Guard ==
    /\ thread.kpc = "guard"
    /\ thread' = IF thread.g.termination = 0
                 THEN [thread EXCEPT !.kpc = "init",
                          !.l = [pos |-> thread.g.pos, label |-> short(thread.g.label),
                                 dist |-> thread.g.dist,
                                 termination |-> short(thread.g.termination)]]
                 ELSE [thread EXCEPT !.kpc = "done"]
    /\ KernelStep
\* The initial update of label and distance; j = 0.
K_Init ==
    /\ thread.kpc = "init"
    /\ LET ld == update_label_and_dist_structures(thread.l.pos,
                     [label |-> thread.l.label, dist |-> thread.l.dist])
       IN thread' = [thread EXCEPT !.kpc = "loop", !.j = 0,
                        !.l.label = ld.label, !.l.dist = ld.dist]
    /\ KernelStep
\* One iteration of the loop over the steps, with its breaks.
K_Step ==
    /\ thread.kpc = "loop" /\ thread.j < thread.num_steps
    /\ LET l == integrate(thread.field, thread.sign, thread.l, 1)
       IN thread' = [thread EXCEPT !.l = l, !.j = @ + 1,
                        !.kpc = IF l.termination # 0 THEN "store" ELSE "loop"]
    /\ KernelStep
K_LoopEnd ==
    /\ thread.kpc = "loop" /\ thread.j >= thread.num_steps
    /\ thread' = [thread EXCEPT !.kpc = "store"]
    /\ KernelStep
\* Store and return calculated values.
K_Store ==
    /\ thread.kpc = "store"
    /\ thread' = [thread EXCEPT !.g = thread.l, !.kpc = "done"]
    /\ KernelStep
\* The kernel call of the next round reaches the same particle.
K_NextRound ==
    /\ thread.kpc = "done" /\ thread.round < MaxThreadRounds
    /\ thread' = [thread EXCEPT !.round = @ + 1, !.kpc = "guard", !.j = 0]
    /\ KernelStep
KernelThread == K_Guard \/ K_Init \/ K_Step \/ K_LoopEnd \/ K_Store \/ K_NextRound

\* Seeds are nodes and cell centres of the domain, not yet integrated.
ThreadSeeds ==
    {[pos |-> <<x * (CellSize \div 2), y * (CellSize \div 2)>>,
      label |-> -1, dist |-> FltMax, termination |-> 0] :
        x \in 0..(2 * (Resolution - 1)), y \in 0..(2 * (Resolution - 1))}
ThreadInit ==
    \E p \in ThreadSeeds, n \in 0..MaxThreadSteps, sg \in {1, -1}, f \in Fields :
        /\ cuda = NoCuda /\ ids = DefaultIds
        /\ thread = [kpc |-> "guard", round |-> 1, j |-> 0, field |-> f, sign |-> sg,
                  num_steps |-> n, g |-> p, l |-> p]

(***************************************************************************)
(* advectRK45 and the kernel with either integration method.               *)
(*                                                                         *)
(* Inside advectRK45 positions and the time step are fixed-point numbers   *)
(* with Fixed units per lattice unit: like a float they have a smallest    *)
(* positive value, products are rounded, and a time step that is shrunk    *)
(* often enough becomes 0.                                                 *)
(***************************************************************************)
Fixed == 100           \* float: units per lattice unit
CellDiag == 849        \* cell_diag = sqrt(cellx^2 + celly^2), in units
MaxError == 2          \* max_integration_error (const_data[5]), in units
PositiveInfinity == 2 * FltMax
NotANumber == 0 - 1

\* Cash-Karp parameters, as fractions: b_21 .. b_65, c_1 .. c_6, c_1s .. c_6s.
CashKarp ==
    [b |-> << <<>>,
              << <<1, 5>> >>,
              << <<3, 40>>, <<9, 40>> >>,
              << <<3, 10>>, <<-9, 10>>, <<6, 5>> >>,
              << <<-11, 54>>, <<5, 2>>, <<-70, 27>>, <<35, 27>> >>,
              << <<1631, 55296>>, <<175, 512>>, <<575, 13824>>, <<44275, 110592>>,
                 <<253, 4096>> >> >>,
     c |-> << <<37, 378>>, <<0, 1>>, <<250, 621>>, <<125, 594>>, <<0, 1>>, <<512, 1771>> >>,
     cs |-> << <<2825, 27648>>, <<0, 1>>, <<18575, 48384>>, <<13525, 55296>>,
               <<277, 14336>>, <<1, 4>> >>]

\* q * k for a fraction q, rounded; the sum of the first n products.
Times(q, k) == <<(q[1] * k[1]) \div q[2], (q[1] * k[2]) \div q[2]>>
RECURSIVE Weighted(_, _, _)
Weighted(qs, ks, n) ==
    IF n = 0 THEN <<0, 0>> ELSE VecAdd(Weighted(qs, ks, n - 1), Times(qs[n], ks[n]))

\* texture_interpolation<2>(textures[0], pos_to_texcoords(p)) for a
\* fixed-point position p: the texel floor(texcoord), zero outside.
velocity_at(field, p) ==
    LET node == <<(p[1] + Fixed * (CellSize \div 2)) \div (Fixed * CellSize),
                  (p[2] + Fixed * (CellSize \div 2)) \div (Fixed * CellSize)>>
    IN IF node[1] \in 0..(Resolution - 1) /\ node[2] \in 0..(Resolution - 1)
       THEN FieldValue(field, node)
       ELSE <<0, 0>>

\* k1 .. k6 of one pass of the do-while loop.
RECURSIVE Stages(_, _, _, _, _)
Stages(field, p, delta, sign, ks) ==
    IF Len(ks) = 6 THEN ks
    ELSE LET i == Len(ks) + 1
             at == VecAdd(p, Weighted(CashKarp.b[i], ks, i - 1))
         IN Stages(field, p, delta, sign,
                   Append(ks, VecScale(delta * sign, velocity_at(field, at))))

\* A quotient whose 0 / 0 compares as infinity.
Quotient_nan_ordered(d, sc) ==
    IF sc = 0 THEN PositiveInfinity ELSE d \div sc
\* difference / scale for one component: a division by zero gives infinity,
\* 0 / 0 gives NaN, which fmaxf drops.
Quotient(d, sc) ==
    IF sc = 0 THEN (IF d = 0 THEN NotANumber ELSE PositiveInfinity) ELSE d \div sc
\* error * max_error = fmaxf(0, fmaxf(difference.x / scale.x, difference.y / scale.y))
error_estimate(field, p, ks) ==
    LET fifth_order == VecAdd(p, Weighted(CashKarp.c, ks, 6))
        fourth_order == VecAdd(p, Weighted(CashKarp.cs, ks, 6))
        difference == <<Abs(fifth_order[1] - fourth_order[1]), Abs(fifth_order[2] - fourth_order[2])>>
        scale == <<Abs(velocity_at(field, p)[1]), Abs(velocity_at(field, p)[2])>>
    IN Max(0, Max(Quotient(difference[1], scale[1]), Quotient(difference[2], scale[2])))

\* powf(error, -0.25) in tenths and powf(error, -0.2) in units, rounded down
\* (e is error * max_error).
shrink_root(e) ==
    IF e >= PositiveInfinity THEN 0
    ELSE CHOOSE t \in 0..10 :
             /\ t * t * t * t * e <= 10000 * MaxError
             /\ \A u \in (t + 1)..10 : u * u * u * u * e > 10000 * MaxError
grow_root(e) ==
    CHOOSE t \in 0..6 :
        /\ t * t * t * t * t * e <= MaxError
        /\ \A u \in (t + 1)..6 : u * u * u * u * u * e > MaxError
\* fmaxf(max_shrink, safety * powf(error, shrink_exponent)), in hundredths, and
\* fminf(max_growth, safety * powf(error, grow_exponent)), in hundredths.
shrink_factor_unclamped(e) == 9 * shrink_root(e)
shrink_factor(e) == Max(10, 9 * shrink_root(e))
grow_factor(e) == Min(500, 90 * grow_root(e))
\* delta *= factor, rounded to the nearest unit.
scaled_up(delta, factor) == (delta * factor + 99) \div 100
scaled(delta, factor) == (delta * factor + 50) \div 100

\* One pass of the do-while loop of advectRK45.
attempt(field, pos, delta, sign) ==
    LET p == VecScale(Fixed, pos)
        ks == Stages(field, p, delta, sign, <<>>)
        e == error_estimate(field, p, ks)
        fifth_order == VecAdd(p, Weighted(CashKarp.c, ks, 6))
    IN [error |-> e,
        decreased |-> e > MaxError,
        factor |-> IF e > MaxError THEN shrink_factor(e) ELSE grow_factor(e),
        delta |-> scaled(delta, IF e > MaxError THEN shrink_factor(e) ELSE grow_factor(e)),
        output_position |-> <<(fifth_order[1] + Fixed \div 2) \div Fixed,
                              (fifth_order[2] + Fixed \div 2) \div Fixed>>]

\* float step = const_data[4].x * texture_interpolation<1>(textures[1], ...):
\* the step texture holds cell_diag at every node and is 0 outside.
initial_step(pos) ==
    LET node == pos_to_texcoords(pos)
    IN IF node[1] \in 0..(Resolution - 1) /\ node[2] \in 0..(Resolution - 1)
       THEN TimeScale * CellDiag
       ELSE 0

\* The kernel thread with the method as a parameter, statement by statement;
\* the thread record also holds the method, the steps of each round, the
\* seed, the adapted time step, the position before the step and the number
\* of rejected attempts of the step.
IntegrationMethods == {0, 1}
A_Init ==
    /\ thread.kpc = "init"
    /\ LET ld == update_label_and_dist_structures(thread.l.pos,
                     [label |-> thread.l.label, dist |-> thread.l.dist])
       IN thread' = [thread EXCEPT !.kpc = "loop", !.j = 0,
                        !.l.label = ld.label, !.l.dist = ld.dist,
                        !.step = initial_step(thread.l.pos), !.attempts = 0]
    /\ KernelStep
\* advectRK4 with a time step that grows with the steps of the call.
A_AdvectRK4_growing ==
    /\ thread.kpc = "loop" /\ thread.j < thread.num_steps /\ thread.method = 0
    /\ thread' = [thread EXCEPT !.kpc = "check", !.prev = thread.l.pos,
                     !.l.pos = advectRK4(thread.field, thread.l.pos,
                                         TimeScale * (1 + thread.j), thread.sign)]
    /\ KernelStep
\* advectRK4(pos, const_data[4].x, sign)
A_AdvectRK4 ==
    /\ thread.kpc = "loop" /\ thread.j < thread.num_steps /\ thread.method = 0
    /\ thread' = [thread EXCEPT !.kpc = "check", !.prev = thread.l.pos,
                     !.l.pos = advectRK4(thread.field, thread.l.pos, TimeScale, thread.sign)]
    /\ KernelStep
\* advectRK45(pos, step, sign, const_data[5].x): one pass of its loop.  The
\* count of rejected attempts stops at RetryBound.
A_Attempt ==
    /\ thread.kpc = "loop" /\ thread.j < thread.num_steps /\ thread.method = 1
    /\ LET a == attempt(thread.field, thread.l.pos, thread.step, thread.sign)
       IN thread' = IF a.decreased
                    THEN [thread EXCEPT !.step = a.delta, !.prev = thread.l.pos,
                             !.attempts = Min(@ + 1, RetryBound)]
                    ELSE [thread EXCEPT !.step = a.delta, !.prev = thread.l.pos,
                             !.l.pos = a.output_position, !.kpc = "check"]
    /\ KernelStep
\* After the advection: label and distance, then the two reasons to stop.
A_Check ==
    /\ thread.kpc = "check"
    /\ LET pos == thread.l.pos
           ld == update_label_and_dist_structures(pos,
                     [label |-> thread.l.label, dist |-> thread.l.dist])
           termination == IF pos = thread.prev THEN stagnated_termination(pos)
                          ELSE IF outside(pos) THEN 1
                          ELSE thread.l.termination
       IN thread' = [thread EXCEPT !.l.label = ld.label, !.l.dist = ld.dist,
                        !.l.termination = termination, !.j = @ + 1, !.attempts = 0,
                        !.kpc = IF termination # 0 THEN "store" ELSE "loop"]
    /\ KernelStep
\* The kernel call of the next round, with that round's number of steps.
A_NextRound ==
    /\ thread.kpc = "done" /\ thread.round < Len(thread.rounds)
    /\ thread' = [thread EXCEPT !.round = @ + 1, !.kpc = "guard", !.j = 0,
                     !.num_steps = thread.rounds[thread.round + 1]]
    /\ KernelStep
AdaptiveThread == \/ K_Guard \/ A_Init \/ A_AdvectRK4 \/ A_Attempt \/ A_Check
                  \/ K_LoopEnd \/ K_Store \/ A_NextRound

AdaptiveInit ==
    \E p \in ThreadSeeds, n, m \in 0..MaxThreadSteps, sg \in {1, -1},
       f \in AdaptiveFields, method \in IntegrationMethods :
        /\ cuda = NoCuda /\ ids = DefaultIds
        /\ thread = [kpc |-> "guard", round |-> 1, j |-> 0, field |-> f, sign |-> sg,
                  num_steps |-> n, g |-> p, l |-> p, method |-> method,
                  rounds |-> <<n, m>>, seed |-> p, step |-> 0, prev |-> p.pos,
                  attempts |-> 0]

\* The kernel thread as compiled with __streamlines_cuda_shi_et_al: label and
\* distance are taken from the final position only.  No initial update.
F_Init ==
    /\ thread.kpc = "init"
    /\ thread' = [thread EXCEPT !.kpc = "loop", !.j = 0,
                     !.step = initial_step(thread.l.pos), !.attempts = 0]
    /\ KernelStep
\* After the advection: no update; a particle outside of the domain gets the
\* "outside" label and distance.
F_Check ==
    /\ thread.kpc = "check"
    /\ LET pos == thread.l.pos
           stagnated == pos = thread.prev
           left == ~stagnated /\ outside(pos)
           termination == IF stagnated THEN stagnated_termination(pos)
                          ELSE IF left THEN 1
                          ELSE thread.l.termination
       IN thread' = [thread EXCEPT
                        !.l.label = IF left THEN -1 ELSE @,
                        !.l.dist = IF left THEN 0 ELSE @,
                        !.l.termination = termination, !.j = @ + 1, !.attempts = 0,
                        !.kpc = IF termination # 0 THEN "store" ELSE "loop"]
    /\ KernelStep
\* A store that leaves the "outside" label and distance of a particle that
\* left the domain as they are.
F_Store_kept ==
    /\ thread.kpc = "store"
    /\ LET ld == IF thread.l.termination = 1
                 THEN [label |-> thread.l.label, dist |-> thread.l.dist]
                 ELSE update_label_and_dist_structures(thread.l.pos,
                          [label |-> -1, dist |-> FltMax])
       IN thread' = [thread EXCEPT !.kpc = "done",
                        !.g = [thread.l EXCEPT !.label = ld.label, !.dist = ld.dist]]
    /\ KernelStep
\* The update at the final position, which starts from label -1 and distance
\* FLT_MAX, then the store.
F_Store ==
    /\ thread.kpc = "store"
    /\ LET ld == update_label_and_dist_structures(thread.l.pos,
                     [label |-> -1, dist |-> FltMax])
       IN thread' = [thread EXCEPT !.kpc = "done",
                        !.g = [thread.l EXCEPT !.label = ld.label, !.dist = ld.dist]]
    /\ KernelStep
FinalOnlyThread == \/ K_Guard \/ F_Init \/ A_AdvectRK4 \/ A_Attempt \/ F_Check
                   \/ K_LoopEnd \/ F_Store \/ A_NextRound

(***************************************************************************)
(* streamlines_cuda_impl::update_labels, statement by statement.           *)
(***************************************************************************)
ArrayNames == <<"labels", "distances", "terminations", "source">>
BufferNames == <<"d_labels", "d_dists", "d_terminations", "d_particles">>
NoBuffer == [alloc |-> FALSE, data |-> <<>>]
NoDevice == [d_labels |-> NoBuffer, d_dists |-> NoBuffer, d_terminations |-> NoBuffer,
             d_particles |-> NoBuffer]
NoCall == [num_integration_steps |-> 0, sign |-> 1, num_particles_per_batch |-> 1,
           field |-> "uniform"]

\* The four arrays of a particle set.
Arrays(ps) ==
    [source |-> [i \in 1..Len(ps) |-> ps[i].pos],
     labels |-> [i \in 1..Len(ps) |-> ps[i].label],
     distances |-> [i \in 1..Len(ps) |-> ps[i].dist],
     terminations |-> [i \in 1..Len(ps) |-> ps[i].termination]]

num_particles == to_unsigned(Len(host.source))
max_num_particles_per_batch == Min(call.num_particles_per_batch, num_particles)
num_particles_this_batch == to_int(Min(call.num_particles_per_batch, num_particles - offset))

\* &array[offset] + i: the host element the i-th element of a batch belongs to.
host_index(off, i) == off + i

\* offset += num_particles_per_batch, in unsigned int.
next_offset_stuck(off, B) == off
next_offset(off, B) == to_unsigned(off + B)

\* The launches of a call are recorded up to one more than any call needs.
MaxLaunches == MaxParticles + 2

\* cudaMemcpy of num_particles_this_batch * sizeof(float) bytes: a negative
\* count converts to a size no buffer has, and the copy is rejected.
CopyErrors == IF num_particles_this_batch < 0 THEN {TRUE} ELSE BOOLEAN

BatchStep ==
    UNCHANGED <<modVars, compVars, resumeVars, refineVars, kernelVars, input, batch_sizes>>

\* err is set: the operation failed and had no effect.
Fail == /\ upc' = "error"
        /\ UNCHANGED <<host, device, offset, uop, call, run, first_result, launches>>
\* throw std::runtime_error: the call is left at once.
Throw_swallowed == /\ upc' = "returned"
                   /\ UNCHANGED <<host, device, offset, uop, call, run, first_result, launches>>
Throw == /\ upc' = "thrown"
         /\ UNCHANGED <<host, device, offset, uop, call, run, first_result, launches>>
\* if (err) { ...; throw std::runtime_error(ss.str()); }
U_Throw ==
    /\ upc = "error"
    /\ Throw
    /\ BatchStep

\* Entry: sizes are computed, nothing is allocated yet.
U_Enter ==
    /\ upc = "entry"
    /\ upc' = "malloc" /\ uop' = 1 /\ offset' = 0
    /\ UNCHANGED <<host, device, call, run, first_result>>
    /\ launches' = <<>>
    /\ BatchStep

\* cudaMalloc of the four buffers, in the order labels, distances,
\* terminations, particles.  New device memory holds arbitrary values; they
\* are overwritten by the first copy before anything reads them.
U_Malloc ==
    /\ upc = "malloc"
    /\ \E err \in BOOLEAN :
          IF err
          THEN Fail
          ELSE /\ device' = [device EXCEPT ![BufferNames[uop]] =
                                [alloc |-> TRUE,
                                 data |-> [i \in 1..max_num_particles_per_batch |->
                                              IF uop = 4 THEN <<0, 0>> ELSE 0]]]
               /\ IF uop = 4 THEN upc' = "loop" /\ uop' = 1
                             ELSE upc' = "malloc" /\ uop' = uop + 1
               /\ UNCHANGED <<host, offset, call, run, first_result, launches>>
    /\ BatchStep

\* Head of the batch loop: offset < num_particles.
U_Loop ==
    /\ upc = "loop"
    /\ upc' = IF offset < num_particles THEN "to_device" ELSE "free"
    /\ UNCHANGED <<host, device, offset, uop, call, run, first_result, launches>>
    /\ BatchStep

\* cudaMemcpy host -> device of one array's part of the batch.
U_CopyToDevice ==
    /\ upc = "to_device"
    /\ \E err \in CopyErrors :
          IF err
          THEN Fail
          ELSE /\ device' = [device EXCEPT ![BufferNames[uop]].data =
                                [i \in DOMAIN @ |->
                                    IF i <= num_particles_this_batch
                                    THEN host[ArrayNames[uop]][host_index(offset, i)]
                                    ELSE @[i]]]
               /\ IF uop = 4 THEN upc' = "kernel" /\ uop' = 1
                             ELSE upc' = "to_device" /\ uop' = uop + 1
               /\ UNCHANGED <<host, offset, call, run, first_result, launches>>
    /\ BatchStep

\* compute_streamlines(d_particles, num_particles_this_batch, ...)
U_Kernel ==
    /\ upc = "kernel"
    /\ device' = compute_streamlines(device, num_particles_this_batch,
                                     call.num_integration_steps, call.sign, call.field)
    /\ upc' = "to_host"
    /\ UNCHANGED <<host, offset, uop, call, run, first_result>>
    /\ launches' = IF Len(launches) < MaxLaunches
                   THEN Append(launches, [offset |-> offset, size |-> num_particles_this_batch])
                   ELSE launches
    /\ BatchStep

\* cudaMemcpy device -> host of one array's part of the batch; after the
\* fourth the loop variable advances: offset += num_particles_per_batch.
U_CopyToHost ==
    /\ upc = "to_host"
    /\ \E err \in CopyErrors :
          IF err
          THEN Fail
          ELSE /\ host' = [host EXCEPT ![ArrayNames[uop]] =
                              [j \in DOMAIN @ |->
                                  IF \E i \in 1..num_particles_this_batch : host_index(offset, i) = j
                                  THEN device[BufferNames[uop]].data[
                                           CHOOSE i \in 1..num_particles_this_batch :
                                               host_index(offset, i) = j]
                                  ELSE @[j]]]
               /\ IF uop = 4
                  THEN /\ upc' = "loop" /\ uop' = 1
                       /\ offset' = next_offset(offset, call.num_particles_per_batch)
                  ELSE /\ upc' = "to_host" /\ uop' = uop + 1
                       /\ UNCHANGED offset
               /\ UNCHANGED <<device, call, run, first_result, launches>>
    /\ BatchStep

\* cudaFree of the four buffers, then the call returns.
U_Free ==
    /\ upc = "free"
    /\ device' = NoDevice
    /\ upc' = "returned"
    /\ UNCHANGED <<host, offset, uop, call, run, first_result, launches>>
    /\ BatchStep

\* The same particle set is processed again, with the second batch size.
U_SecondRun ==
    /\ upc = "returned" /\ run = 1
    /\ first_result' = host
    /\ host' = Arrays(input)
    /\ call' = [call EXCEPT !.num_particles_per_batch = batch_sizes[2]]
    /\ run' = 2 /\ upc' = "entry"
    /\ launches' = <<>>
    /\ UNCHANGED <<device, offset, uop>>
    /\ BatchStep

UpdateLabels == \/ U_Enter \/ U_Malloc \/ U_Loop \/ U_CopyToDevice \/ U_Kernel
                \/ U_CopyToHost \/ U_Free \/ U_SecondRun \/ U_Throw

\* No call of update_labels is followed (the orchestrator specification).
BatchIdle ==
    /\ host = Arrays(<<>>) /\ device = NoDevice /\ offset = 0 /\ upc = "idle" /\ uop = 1
    /\ call = NoCall /\ input = <<>> /\ batch_sizes = <<1, 1>> /\ run = 1
    /\ first_result = Arrays(<<>>) /\ launches = <<>>

\* Particles as the orchestrator hands them over: fresh seeds (unresolved
\* label, infinite distance, not terminated) and a particle that left the
\* domain in an earlier round.
SeedParticles ==
    <<[pos |-> <<0, 6>>, label |-> -1, dist |-> FltMax, termination |-> 0],
      [pos |-> <<9, 3>>, label |-> -1, dist |-> FltMax, termination |-> 0],
      [pos |-> <<15, 6>>, label |-> 9, dist |-> 0, termination |-> 1]>>
\* Particle sets of every size up to MaxParticles, the kinds alternating.
ParticleSets ==
    {[i \in 1..n |-> SeedParticles[((i + shift) % Len(SeedParticles)) + 1]] :
        n \in 0..MaxParticles, shift \in 1..Len(SeedParticles)}

BatchInit ==
    /\ input \in ParticleSets
    /\ host = Arrays(input)
    /\ batch_sizes \in (0..MaxBatch) \X (0..MaxBatch)
    /\ call \in [num_integration_steps : 0..MaxKernelSteps, sign : {1, -1},
                 num_particles_per_batch : {batch_sizes[1]}, field : Fields]
    /\ device = NoDevice /\ offset = 0 /\ upc = "entry" /\ uop = 1 /\ run = 1
    /\ first_result = Arrays(<<>>) /\ launches = <<>>

(***************************************************************************)
(* Specifications.                                                         *)
(***************************************************************************)
\* implicit_topology::implicit_topology(): no computation, nothing running.
SetModInit ==
    /\ computation = FALSE
    /\ computation_running = FALSE
    /\ mesh_output_changed = FALSE
    /\ data_output_changed = FALSE
    /\ last_result = Invalid
    /\ previous_result = NoResult
    /\ vertices = NoResult
    /\ readonly_fixed = FALSE
    /\ readonly_variable = FALSE
    /\ cpc = "idle"
    /\ saved = NoSave

SetCompInit ==
    LET c == constructor([i \in FutIds |-> FreeFuture]) IN
    /\ wpc = c.wpc
    /\ num_threads = c.num_threads
    /\ terminate_computation = c.terminate_computation
    /\ current_result = c.current_result
    /\ writing = c.writing
    /\ promise = c.promise
    /\ num_integration_steps_performed = c.steps
    /\ progress_forward = c.progress_forward
    /\ progress_backward = c.progress_backward
    /\ run_args = c.run_args
    /\ futures = c.futures
    /\ aborted = c.aborted

\* No pause/resume experiment is followed: the object in use was not
\* constructed from a result the model tracks.
ResumeIdle == budget = NoArgs /\ resumed_from = NoResult
\* No triangulated domain is being refined.
NoGrid == [round |-> 0]
RefineIdle == grid = NoGrid
\* No kernel thread is followed.
NoThread == [kpc |-> "none"]
ThreadIdle == thread = NoThread /\ cuda = NoCuda /\ ids = DefaultIds

Init ==
    /\ SetModInit
    /\ SetCompInit
    /\ BatchIdle
    /\ ResumeIdle
    /\ RefineIdle
    /\ ThreadIdle

Next == Caller \/ Worker

Spec == Init /\ [][Next]_vars

\* The module with its save button: the callbacks of a module that lives on.
NextSave == \/ StartCallback \/ GetTriangleData \/ GetDataData \/ StopCallback
            \/ ResetCallback \/ LoadCallback \/ SaveCallback \/ JoinReturn \/ Worker
SpecSave == Init /\ [][NextSave]_vars

\* One particle set run through update_labels with two batch sizes.
InitBatch ==
    /\ SetModInit
    /\ SetCompInit
    /\ BatchInit
    /\ ResumeIdle
    /\ RefineIdle
    /\ ThreadIdle

NextBatch == UpdateLabels

SpecBatch == InitBatch /\ [][NextBatch]_vars
\* The thread that called update_labels keeps running, and a kernel launch
\* returns (U_Kernel is enabled exactly at upc = "kernel").  The calls
\* followed are those in the uniform field, integrated forward, on the
\* particle sets of one arrangement.
InitLoop ==
    /\ InitBatch
    /\ call.field = "uniform" /\ call.sign = 1
    /\ input = [i \in 1..Len(input) |-> SeedParticles[((i + 1) % Len(SeedParticles)) + 1]]
HostSteps == \/ U_Enter \/ U_Malloc \/ U_Loop \/ U_CopyToDevice
             \/ U_CopyToHost \/ U_Free \/ U_SecondRun \/ U_Throw
SpecBatchFair == /\ InitLoop /\ [][NextBatch]_vars
                 /\ WF_vars(HostSteps) /\ []<>(upc # "kernel")

(***************************************************************************)
(* Pause and resume.  The user keeps one step budget and one number of     *)
(* steps per round set, starts, may stop, saves the result the module      *)
(* holds (save_computation_callback writes previous_result, and only while *)
(* no computation runs) and loads it again, which constructs a new         *)
(* computation object from it; then starts again.  The writer and reader   *)
(* round-trip the result losslessly.                                       *)
(***************************************************************************)
ResumeBudgets ==
    [total : 1..MaxResume, steps_per_batch : 1..MaxResume,
     particles_per_batch : {DefaultParticlesPerBatch}]

R_Start ==
    /\ cpc = "idle"
    /\ \E r \in start_computation_callback(Mod, Comp, TRUE, budget.total,
                     budget.steps_per_batch, budget.particles_per_batch) : Apply(r)
    /\ UNCHANGED cpc

\* save_computation_callback followed by load_computation_callback.
R_SaveLoad ==
    /\ cpc = "idle"
    /\ ~computation_running
    /\ previous_result.st = "ready"
    /\ ~reset_blocks(Mod, Comp)
    /\ LET r == load_computation_callback(Mod, Comp, TRUE, TRUE, previous_result) IN
       CommitObjects(r.m, r.c)
    /\ resumed_from' = previous_result
    /\ UNCHANGED <<cpc, budget, batchVars, refineVars, kernelVars>>

InitResume ==
    /\ SetModInit
    /\ SetCompInit
    /\ BatchIdle
    /\ budget \in ResumeBudgets
    /\ resumed_from = NoResult
    /\ RefineIdle
    /\ ThreadIdle

NextResume ==
    \/ R_Start \/ R_SaveLoad \/ GetTriangleData \/ StopCallback \/ JoinReturn
    \/ W_LoopCond \/ W_Forward \/ W_Backward \/ W_Fulfil
    \/ W_StoreBegin \/ W_StoreEnd \/ W_Final \/ W_Exit

SpecResume == InitResume /\ [][NextResume]_vars

(***************************************************************************)
(* Refinement of the triangulated domain (refine_grid).  One round of the  *)
(* computation integrates the particles and then refines the              *)
(* triangulation whose vertices are the particles.  Positions are lattice  *)
(* points of a square of side Side, fine enough that the midpoints of      *)
(* MaxRefine rounds are lattice points again; lengths are compared by      *)
(* their squares.  The result of the integration is abstracted by a        *)
(* classification of the seed position.                                    *)
(***************************************************************************)
Side == 2 ^ MaxRefine
Unresolved == -1

GridFields == {"separatrix", "alternating"}
\* What the integration of the particle with index i seeded at pos ends with.
Integrated(field, i, pos) ==
    IF field = "separatrix"
    THEN [position |-> <<Side \div 2, pos[2]>>,
          label |-> IF pos[1] < Side \div 2 THEN 7 ELSE 9,
          distance |-> Abs(pos[1] - Side \div 2), termination |-> 3]
    ELSE [position |-> <<pos[1], 0>>,
          label |-> 7 + 2 * (i % 2), distance |-> 0, termination |-> 2]

GridArrays ==
    {"vertices", "positions_forward", "positions_backward",
     "labels_forward", "distances_forward", "terminations_forward",
     "labels_backward", "distances_backward", "terminations_backward"}

\* The arrays of freshly seeded particles at the given positions.
Seeded(seeds) ==
    [vertices |-> seeds, positions_forward |-> seeds, positions_backward |-> seeds,
     labels_forward |-> [k \in DOMAIN seeds |-> Unresolved],
     distances_forward |-> [k \in DOMAIN seeds |-> FltMax],
     terminations_forward |-> [k \in DOMAIN seeds |-> 0],
     labels_backward |-> [k \in DOMAIN seeds |-> Unresolved],
     distances_backward |-> [k \in DOMAIN seeds |-> FltMax],
     terminations_backward |-> [k \in DOMAIN seeds |-> 0]]

Edges(g) == UNION {{e \in t \X t : e[1] < e[2]} : t \in g.triangles}
EdgeLess(e, f) == e[1] < f[1] \/ (e[1] = f[1] /\ e[2] <= f[2])
RECURSIVE EdgeSeq(_)
EdgeSeq(S) ==
    IF S = {} THEN <<>>
    ELSE LET e == CHOOSE x \in S : \A f \in S : EdgeLess(x, f)
         IN <<e>> \o EdgeSeq(S \ {e})

Midpoint(p, q) == <<(p[1] + q[1]) \div 2, (p[2] + q[2]) \div 2>>
EdgeMidpoint(g, e) == Midpoint(g.vertices[e[1]], g.vertices[e[2]])
LongerThan(g, e, threshold) ==
    sqdist(g.vertices[e[1]], g.vertices[e[2]]) > threshold * threshold
LabelsDiffer(g, e) ==
    <<g.labels_forward[e[1]], g.labels_backward[e[1]]>>
        # <<g.labels_forward[e[2]], g.labels_backward[e[2]]>>
DistancesDiffer(g, e, threshold) ==
    \/ Abs(g.distances_forward[e[1]] - g.distances_forward[e[2]]) > threshold
    \/ Abs(g.distances_backward[e[1]] - g.distances_backward[e[2]]) > threshold
refine_predicate_unguarded(g, e) == TRUE
refine_predicate(g, e) ==
    \/ g.refine_at_labels /\ LabelsDiffer(g, e)
    \/ DistancesDiffer(g, e, g.distance_difference_threshold)
refine_floor_missing(g, e) == TRUE
refine_floor(g, e) == LongerThan(g, e, g.refinement_threshold)
\* The edges refine_grid subdivides, in the order of their seeds.
refined_edges(g) ==
    EdgeSeq({e \in Edges(g) : refine_floor(g, e) /\ refine_predicate(g, e)})
\* refine_grid returns the newly created seed points.
refine_grid(g) ==
    LET es == refined_edges(g) IN [k \in DOMAIN es |-> EdgeMidpoint(g, es[k])]

\* The triangles in place of t once the seeds are vertices: every
\* subdivided edge of t is cut at its seed.
Subdivided(g, es, t) ==
    LET mid(e) == Len(g.vertices) + (CHOOSE k \in DOMAIN es : es[k] = e)
        cut == {e \in t \X t : e[1] < e[2] /\ \E k \in DOMAIN es : es[k] = e}
        ends == UNION {{e[1], e[2]} : e \in cut}
    IN  IF cut = {} THEN {t}
        ELSE IF Cardinality(cut) = 1
        THEN LET e == CHOOSE x \in cut : TRUE
                 c == CHOOSE x \in t : x \notin ends
             IN {{e[1], mid(e), c}, {mid(e), e[2], c}}
        ELSE IF Cardinality(cut) = 2
        THEN LET sh == CHOOSE x \in t : \A e \in cut : x \in {e[1], e[2]}
                 p == CHOOSE x \in t \ {sh} : \A y \in t \ {sh} : x <= y
                 q == CHOOSE x \in t \ {sh} : x # p
                 m(x) == mid(IF sh < x THEN <<sh, x>> ELSE <<x, sh>>)
             IN {{sh, m(p), m(q)}, {p, m(p), m(q)}, {p, m(q), q}}
        ELSE {{x} \cup {mid(e) : e \in {f \in cut : x \in {f[1], f[2]}}} : x \in t}
              \cup {{mid(e) : e \in cut}}

append_unsized(g, a, seeds) ==
    IF a = "terminations_backward" THEN g[a] ELSE g[a] \o Seeded(seeds)[a]
append(g, a, seeds) == g[a] \o Seeded(seeds)[a]
\* The grid after the seeds of one refinement were inserted.
insert_seeds(g) ==
    LET es == refined_edges(g)
        seeds == refine_grid(g)
    IN [a \in DOMAIN g |->
           IF a \in GridArrays THEN append(g, a, seeds)
           ELSE IF a = "triangles" THEN UNION {Subdivided(g, es, t) : t \in g.triangles}
           ELSE IF a = "seeds" THEN seeds
           ELSE IF a = "round" THEN g.round + 1
           ELSE IF a = "phase" THEN "integrate"
           ELSE g[a]]

\* update_labels forward and backward on the whole particle set.
integrate_grid(g) ==
    LET res(i) == Integrated(g.field, i, g.vertices[i])
        n == DOMAIN g.vertices
    IN [g EXCEPT !.positions_forward = [i \in n |-> res(i).position],
                 !.labels_forward = [i \in n |-> res(i).label],
                 !.distances_forward = [i \in n |-> res(i).distance],
                 !.terminations_forward = [i \in n |-> res(i).termination],
                 !.positions_backward = [i \in n |-> <<0, g.vertices[i][2]>>],
                 !.labels_backward = [i \in n |-> 5],
                 !.distances_backward = [i \in n |-> g.vertices[i][1]],
                 !.terminations_backward = [i \in n |-> 1],
                 !.phase = "refine"]

GridStep == UNCHANGED <<modVars, compVars, batchVars, resumeVars, kernelVars>>
G_Integrate ==
    /\ grid.round \in 1..MaxRefine /\ grid.phase = "integrate"
    /\ grid' = integrate_grid(grid)
    /\ GridStep
G_Refine ==
    /\ grid.round \in 1..MaxRefine /\ grid.phase = "refine"
    /\ grid' = insert_seeds(grid)
    /\ GridStep

InitialSeeds ==
    {<<<<0, 0>>, <<Side, 0>>, <<0, Side>>>>,
     <<<<0, 0>>, <<Side, 0>>, <<0, Side>>, <<Side, Side>>>>}
InitialGrid(seeds) ==
    [a \in GridArrays |-> Seeded(seeds)[a]] @@
    [triangles |-> {{1, 2, 3}} \cup (IF Len(seeds) = 4 THEN {{2, 3, 4}} ELSE {}),
     seeds |-> <<>>, round |-> 1, phase |-> "integrate"]
InitRefine ==
    /\ SetModInit
    /\ SetCompInit
    /\ BatchIdle
    /\ ResumeIdle
    /\ ThreadIdle
    /\ \E seeds \in InitialSeeds :
       \E params \in [refinement_threshold : {Side \div 2, Side \div 4},
                       refine_at_labels : BOOLEAN,
                       distance_difference_threshold : {Side \div 4, 2 * Side},
                       field : GridFields] :
           grid = InitialGrid(seeds) @@ params
NextRefine == G_Integrate \/ G_Refine
SpecRefine == InitRefine /\ [][NextRefine]_vars

InitKernel ==
    /\ SetModInit
    /\ SetCompInit
    /\ BatchIdle
    /\ ResumeIdle
    /\ RefineIdle
    /\ ThreadInit
NextKernel == KernelThread
SpecKernel == InitKernel /\ [][NextKernel]_vars

\* One kernel thread with either method over two rounds.
InitAdaptive ==
    /\ SetModInit
    /\ SetCompInit
    /\ BatchIdle
    /\ ResumeIdle
    /\ RefineIdle
    /\ AdaptiveInit
NextAdaptive == AdaptiveThread
SpecAdaptive == InitAdaptive /\ [][NextAdaptive]_vars

\* The kernel thread of a build with __streamlines_cuda_shi_et_al.
NextFinalOnly == FinalOnlyThread
SpecFinalOnly == InitAdaptive /\ [][NextFinalOnly]_vars

\* One kernel thread of an instance whose convergence structures carry ids
\* at and beyond the limits of short and of the significand of a float.
IdValues == {-32769, -32768, -1, 7, 32767, 32768, 65543, 16777217}
LabelsInit ==
    \E p \in ThreadSeeds, n \in 0..MaxThreadSteps, sg \in {1, -1}, f \in Fields,
       point_id \in IdValues, line_id \in IdValues :
        /\ cuda = NoCuda
        /\ ids = [point_ids |-> <<point_id>>, line_ids |-> <<line_id>>]
        /\ thread = [kpc |-> "guard", round |-> 1, j |-> 0, field |-> f, sign |-> sg,
                  num_steps |-> n, g |-> p, l |-> p]
InitLabels ==
    /\ SetModInit
    /\ SetCompInit
    /\ BatchIdle
    /\ ResumeIdle
    /\ RefineIdle
    /\ LabelsInit
NextLabels == KernelThread
SpecLabels == InitLabels /\ [][NextLabels]_vars

\* Objects of streamlines_cuda constructed by one thread and used by workers.
InitShared ==
    /\ SetModInit
    /\ SetCompInit
    /\ BatchIdle
    /\ ResumeIdle
    /\ RefineIdle
    /\ ThreadIdle
NextShared == StreamlinesCuda
SpecShared == InitShared /\ [][NextShared]_vars

\* The operating system schedules a runnable worker thread, and a join whose
\* thread has exited returns.  Nothing obliges the user or the framework to
\* invoke a callback.
SpecFair == Spec /\ WF_vars(Worker) /\ WF_vars(JoinReturn)

(***************************************************************************)
(* Properties of the orchestrator and of the polling module.               *)
(***************************************************************************)
Ready(h) == h \in FutIds /\ futures[h].st = "ready"
Pending(h) == h \in FutIds /\ futures[h].st = "pending"
InLoop == wpc \in {"cond", "fwd", "bwd", "publish", "promise", "store", "spin"}

\* C1: get_results() called while the worker publishes returns the previously
\* or the newly published future, never a half-updated handle: the caller's
\* copy of current_result is never the outcome of a read that raced a write.
C1_AtomicPublication == last_result # Torn

\* C2: every future handed out by get_results() after start() eventually
\* becomes ready (with a snapshot or with the recorded error): the module is
\* never left holding a future that stays pending forever.
C2_FutureBecomesReady == [](Pending(last_result) => <>(~Pending(last_result)))

\* C3: every snapshot published inside the loop has finished = false; on loop
\* exit exactly one further snapshot, with finished = true, is published, and
\* then nothing more is published and the thread exits.
C3_State ==
    /\ InLoop /\ Ready(current_result) => ~futures[current_result].finished
    /\ wpc \in {"exiting", "exited"} /\ Ready(current_result)
          => futures[current_result].finished
C3_Step ==
    /\ wpc = "publish" /\ wpc' # "publish"
          => /\ wpc' = "promise" /\ Pending(promise)
             /\ futures'[promise].st = "ready" /\ ~futures'[promise].finished
    /\ wpc = "cond" /\ wpc' \notin {"cond", "fwd"} => wpc' = "final"
    /\ wpc = "final" /\ wpc' # "final"
          => /\ wpc' = "exiting" /\ Pending(promise)
             /\ futures'[promise].st = "ready" /\ futures'[promise].finished
    /\ wpc = "exiting" /\ wpc' # "exiting" => wpc' = "exited" /\ futures' = futures
C3_FinalSnapshot == [](C3_State) /\ [][C3_Step]_vars
C3_Witness ==
    /\ wpc = "exited" /\ Ready(current_result) /\ futures[current_result].finished
    /\ last_result # current_result /\ Ready(last_result) /\ ~futures[last_result].finished

\* C4: at most one worker thread exists per computation object; a start()
\* issued while a worker runs neither spawns a second one nor replaces the
\* running one (its arguments stay those of the start() that spawned it).
C4_Step ==
    WorkerActive => /\ num_threads' <= num_threads
                    /\ run_args' = run_args \/ wpc' = "exited"
C4_OneWorker == [](num_threads <= 1) /\ [][C4_Step]_vars
C4_Witness ==
    /\ WorkerActive /\ num_threads = 1 /\ wpc = "exiting" /\ computation_running
    /\ last_result = current_result /\ Ready(last_result)
    /\ previous_result = futures[last_result] /\ previous_result.finished

\* C5: when terminate() has returned the cancel flag is set and the worker
\* has exited; a caller waits in terminate() only for a worker that was
\* started and has not been joined, so terminate() with no worker, with a
\* finished worker or called twice returns at once.
C5_TerminateJoins ==
    /\ terminate_computation /\ ~Joining => ~WorkerActive
    /\ Joining => terminate_computation /\ wpc # "none"
C5_Witness ==
    /\ computation /\ terminate_computation /\ cpc = "idle" /\ wpc = "none"
    /\ Ready(current_result) /\ futures[current_result].finished

\* C6: cancellation is observed only at round boundaries: a round that has
\* begun applies all its forward and all its backward steps whatever the
\* cancel flag, the worker leaves a round only through its publication (or a
\* device error), and every snapshot published by an object none of whose
\* rounds was aborted by a device error has equal forward and backward steps.
C6_Step ==
    /\ wpc = "fwd" /\ wpc' = "bwd"
          => progress_forward' = progress_forward + num_steps(Comp)
    /\ wpc = "bwd" /\ wpc' = "publish"
          => progress_backward' = progress_backward + num_steps(Comp)
    /\ wpc \in {"fwd", "bwd"} => wpc' \in {"fwd", "bwd", "publish", "spin", "exiting"}
    /\ wpc \in {"fwd", "bwd"} /\ wpc' = "exiting" => aborted'
    /\ wpc \in {"publish", "final"} /\ wpc' # wpc /\ ~aborted
          => futures'[promise].fwd = futures'[promise].bwd
C7_LoopTerminates ==
    [](wpc = "cond" /\ run_args.particles_per_batch >= 1 => <>(~InLoop))

\* C8: no worker outlives its computation object: when the module resets,
\* reloads or is destroyed, the object is released only after its worker was
\* told to cancel and has been joined.
C8_State == ~computation => wpc = "none"
C8_Step ==
    /\ computation /\ ~computation' => terminate_computation' /\ wpc' = "none"
    /\ cpc \in {"join_reset", "join_load", "join_destroy"} /\ cpc' # cpc
          => wpc = "exited" /\ terminate_computation /\ wpc' = "none"
    /\ cpc = "idle" /\ LoadCallback /\ cpc' = "idle" /\ vars' # vars => wpc' = "none"
C8_JoinedBeforeRelease == [](C8_State) /\ [][C8_Step]_vars
C8_Witness ==
    /\ cpc \in {"join_reset", "join_load", "join_destroy"}
    /\ computation /\ terminate_computation /\ wpc = "exited"

\* C9: a published snapshot is immutable: no step of the worker changes a
\* snapshot the caller holds (the ready future behind last_result, the arrays
\* taken from it, previous_result); a publication replaces the future.
C9_Step ==
    Worker => /\ UNCHANGED <<vertices, previous_result, last_result>>
              /\ Ready(last_result) => futures'[last_result] = futures[last_result]
C10_BatchSizeInvariance ==
    run = 2 /\ upc = "returned" => host = first_result

\* C11: resume idempotence: a computation constructed from a published result
\* of completed rounds and run for the rest of the step budget ends with the
\* final state of an uninterrupted run over the whole budget: all particles
\* integrated budget.total steps forward and backward, finished set.
C11_Step ==
    /\ wpc = "final" /\ wpc' = "exiting"
    /\ ~terminate_computation /\ ~aborted
    /\ resumed_from.fwd = resumed_from.bwd
    /\ resumed_from.steps <= budget.total
    => futures'[current_result'] = Result(TRUE, budget.total, budget.total, budget.total)
Range(f) == {f[k] : k \in DOMAIN f}
Refining == grid.round \in 1..MaxRefine /\ grid.phase = "refine"
ShortEdges(g) == {e \in Edges(g) : ~LongerThan(g, e, g.refinement_threshold)}

\* C12: a refinement round emits no seed for an edge whose length does not
\* exceed refinement_threshold; once no edge exceeds it, refinement adds no
\* particle any more.
C12_Step ==
    Refining /\ grid' # grid =>
        /\ \A e \in ShortEdges(grid) : EdgeMidpoint(grid, e) \notin Range(grid'.seeds)
        /\ ShortEdges(grid) = Edges(grid) => grid'.vertices = grid.vertices
C12_RefinementFloor == [][C12_Step]_vars
C12_Witness ==
    /\ grid.round >= 3 /\ grid.phase = "integrate" /\ grid.seeds = <<>>
    /\ Len(grid.vertices) > 4
    /\ \E e \in ShortEdges(grid) : refine_predicate(grid, e)

\* C13: a refinement round emits exactly one seed, at the midpoint, for every
\* edge that is longer than refinement_threshold and whose endpoints have
\* different (forward, backward) label pairs while refine_at_labels is enabled
\* or distances differing by more than distance_difference_threshold; it
\* emits no other seed and at most one seed per edge.
QualifyingEdges(g) ==
    {e \in Edges(g) :
        /\ LongerThan(g, e, g.refinement_threshold)
        /\ \/ g.refine_at_labels /\ LabelsDiffer(g, e)
           \/ DistancesDiffer(g, e, g.distance_difference_threshold)}
C13_Step ==
    Refining /\ grid' # grid =>
        /\ Range(grid'.seeds) = {EdgeMidpoint(grid, e) : e \in QualifyingEdges(grid)}
        /\ Len(grid'.seeds) = Cardinality(QualifyingEdges(grid))
C13_OneSeedPerEdge == [][C13_Step]_vars
C13_Witness ==
    /\ grid.round = 2 /\ grid.phase = "integrate" /\ grid.refine_at_labels
    /\ Len(grid.seeds) = 2 /\ Len(grid.vertices) = 5
    /\ grid.seeds = <<<<Side \div 2, 0>>, <<Side \div 2, Side \div 2>>>>

\* C14: the particle set only grows: every array keeps its entries in place
\* from round to round (refinement changes none of them), the seeds of a
\* refinement are appended with label unresolved, distance FLT_MAX,
\* termination 0 and their seed position as integrated position, and all
\* arrays always have one entry per particle.
IsPrefix(a, b) == Len(a) <= Len(b) /\ \A k \in DOMAIN a : a[k] = b[k]
Fresh(g, k) ==
    /\ g.positions_forward[k] = g.vertices[k] /\ g.positions_backward[k] = g.vertices[k]
    /\ g.labels_forward[k] = Unresolved /\ g.labels_backward[k] = Unresolved
    /\ g.distances_forward[k] = FltMax /\ g.distances_backward[k] = FltMax
    /\ g.terminations_forward[k] = 0 /\ g.terminations_backward[k] = 0
C14_Sized(g) == \A a \in GridArrays : Len(g[a]) = Len(g.vertices)
C14_Step ==
    grid.round >= 1 =>
        /\ C14_Sized(grid) /\ C14_Sized(grid')
        /\ IsPrefix(grid.vertices, grid'.vertices)
        /\ Refining =>
            /\ \A a \in GridArrays : IsPrefix(grid[a], grid'[a])
            /\ Len(grid'.vertices) = Len(grid.vertices) + Len(grid'.seeds)
            /\ \A k \in 1..Len(grid'.seeds) :
                /\ grid'.vertices[Len(grid.vertices) + k] = grid'.seeds[k]
                /\ Fresh(grid', Len(grid.vertices) + k)
C14_OnlyGrows == [][C14_Step]_vars
C14_Witness ==
    /\ grid.round = 3 /\ grid.phase = "integrate" /\ grid.seeds # <<>>
    /\ C14_Sized(grid)
    /\ Fresh(grid, Len(grid.vertices)) /\ ~Fresh(grid, 1)

\* The distances of pos to the structures in the order they are examined
\* (points, then line segments), and the id of the first nearest one.
StructureDistances(pos) ==
    [k \in 1..Len(ConvergencePoints) |->
        [id |-> ConvergencePoints[k].id, d |-> sqdist(pos, ConvergencePoints[k].p)]] \o
    [k \in 1..Len(ConvergenceLines) |->
        [id |-> ConvergenceLines[k].id,
         d |-> distance_point_line(pos, ConvergenceLines[k].p0, ConvergenceLines[k].p1)]]
FirstNearest(pos) ==
    LET sd == StructureDistances(pos)
        k == CHOOSE i \in DOMAIN sd :
                 /\ \A m \in DOMAIN sd : sd[i].d <= sd[m].d
                 /\ \A m \in 1..(i - 1) : sd[m].d > sd[i].d
    IN sd[k]
InKernel == thread.kpc # "none"

\* C15: the recorded distance of a particle never increases, over the steps
\* of a kernel call and over the rounds, and the label changes only together
\* with a strictly smaller distance, to the first of the nearest structures
\* in the order points, then line segments (a tie keeps the earlier label).
C15_Monotone(a, b) == b.dist <= a.dist /\ (b.label # a.label => b.dist < a.dist)
C15_Step ==
    InKernel =>
        /\ C15_Monotone(thread.l, thread'.l)
        /\ C15_Monotone(thread.g, thread'.g)
        /\ thread'.l.label # thread.l.label =>
            /\ thread'.l.dist = FirstNearest(thread'.l.pos).d
            /\ thread'.l.label = FirstNearest(thread'.l.pos).id
C15_MonotoneDistance == [][C15_Step]_vars
C15_Witness ==
    /\ thread.kpc = "done" /\ thread.round = 2 /\ thread.g.termination = 2
    /\ thread.g.pos = <<6, 0>>
    /\ \A m \in DOMAIN StructureDistances(thread.g.pos) :
           StructureDistances(thread.g.pos)[m].d = thread.g.dist
    /\ thread.g.label = ConvergencePoints[1].id

\* C16: the termination code is always one of 0, 1, 2, 3; a step that moves
\* the particle out of [0,1]^2 sets it to 1, a step that leaves the position
\* unchanged sets it to 2 or 3, any other step leaves it 0, so it is 0 after
\* the call exactly when all requested steps were made and none of them left
\* the domain or stagnated; the first step that sets a code is the last step.
LeftDomain(pos) == ~(pos[1] \in 0..DomainMax /\ pos[2] \in 0..DomainMax)
C16_State ==
    InKernel =>
        /\ thread.l.termination \in 0..3 /\ thread.g.termination \in 0..3
        /\ thread.kpc \in {"loop", "store", "done"} /\ LeftDomain(thread.l.pos)
               => thread.l.termination = 1
        /\ thread.kpc = "loop" => thread.l.termination = 0
        /\ thread.kpc = "store" /\ thread.l.termination = 0 => thread.j = thread.num_steps
C16_Step ==
    /\ C16_State
    /\ InKernel /\ thread'.j = thread.j + 1 =>
        LET moved == thread'.l.pos # thread.l.pos
            left == LeftDomain(thread'.l.pos)
        IN /\ thread'.l.termination = 0 <=> moved /\ ~left
           /\ thread'.l.termination = 1 <=> moved /\ left
           /\ thread'.l.termination \in {2, 3} <=> ~moved
    /\ InKernel /\ thread.l.termination # 0 => thread'.l = thread.l
C16_Classification == [][C16_Step]_vars
C16_Witness ==
    /\ thread.kpc = "done" /\ thread.round = 1
    /\ thread.num_steps = 2 /\ thread.j = 1
    /\ thread.g.termination = 1 /\ LeftDomain(thread.g.pos)

\* C17 (as amended): a step that leaves the position unchanged sets the code
\* to 3 if the particle is closer than half the smaller cell side to some
\* convergence point or segment, and to 2 otherwise.
Stagnates == InKernel /\ thread'.j = thread.j + 1 /\ thread'.l.pos = thread.l.pos
C17_Step ==
    Stagnates =>
        thread'.l.termination =
            IF 4 * FirstNearest(thread.l.pos).d < CellSize * CellSize THEN 3 ELSE 2
C17_OriginalStep ==
    Stagnates =>
        thread'.l.termination =
            IF 4 * FirstNearest(thread.l.pos).d < 2 * CellSize * CellSize THEN 3 ELSE 2
C18_Step ==
    InKernel /\ thread.g.termination # 0 =>
        /\ thread'.g = thread.g
        /\ thread.kpc = "guard" => thread'.kpc = "done"
C18_Absorbing == [][C18_Step]_vars
C18_Witness ==
    /\ thread.kpc = "done" /\ thread.round = 2
    /\ thread.num_steps >= 1 /\ thread.j = 0
    /\ thread.g.termination # 0

\* C19: a failing allocation or transfer aborts the whole call of
\* update_labels: the failing operation is followed at once by the throw,
\* with the arrays, the buffers and the loop variable as the operation found
\* them, and after the throw nothing is transferred, launched or retried.
C19_Step ==
    /\ upc = "error" => upc' = "thrown" /\ UNCHANGED <<host, device, offset, run>>
    /\ upc' = "error" => UNCHANGED <<host, device, offset, run>>
    /\ upc = "thrown" => UNCHANGED <<host, device, offset, run, upc>>
C19_FailureAborts == [][C19_Step]_vars
C19_Witness ==
    /\ upc = "thrown" /\ run = 1
    /\ offset > 0 /\ offset + call.num_particles_per_batch < Len(input)
    /\ uop = 3

FailingStarts ==
    UNION {start_computation_callback(Mod, Comp, FALSE, in.total, in.spb, in.ppb) :
              in \in StartInputs}
Refused == {[ok |-> FALSE, m |-> Mod, c |-> Comp]}

\* C20 (as amended): while no computation object exists, a start with a
\* provider that is not connected or fails to deliver returns false and
\* changes nothing: no computation object is created, no worker is started
\* and computation_running stays false.
C20_FailFast == cpc = "idle" /\ ~computation => FailingStarts = Refused /\ ~computation_running
C20_Witness ==
    /\ cpc = "idle" /\ ~computation /\ ~computation_running /\ wpc = "none"
    /\ FailingStarts = Refused
    /\ vertices # NoResult
\* C20 (as stated): ... whenever a provider is not connected or fails.
C20_FailFastAlways == cpc = "idle" /\ ~computation_running => FailingStarts = Refused

\* update_results takes the result out of last_result and fetches the next
\* future.
Consumes ==
    /\ computation_running /\ ~mesh_output_changed /\ ~data_output_changed
    /\ Ready(last_result)
    /\ mesh_output_changed' \/ data_output_changed'
    /\ previous_result' = futures[last_result]

\* C21: the module never consumes a snapshot twice: after it consumed an
\* intermediate snapshot of a run whose rounds make progress, the future it
\* stores in last_result is a future of the computation that is not already
\* resolved to the snapshot just consumed.
C21_Step ==
    Consumes /\ ~previous_result'.finished /\ run_args.steps_per_batch >= 1 =>
        /\ last_result' \in FutIds
        /\ futures'[last_result'] # previous_result'
C21_ConsumedOnce == [][C21_Step]_vars


\* The framework renders frame after frame: nothing but the start button and
\* the two data callbacks is invoked, and each callback is invoked again and
\* again.
NextRender == StartCallback \/ GetTriangleData \/ GetDataData \/ Worker
SpecRender == /\ Init /\ [][NextRender]_vars
              /\ WF_vars(Worker)
              /\ WF_vars(GetTriangleData) /\ WF_vars(GetDataData)

\* The worker has published the finished snapshot.
FinishedPublished ==
    /\ Ready(current_result)
    /\ futures[current_result].finished

\* C22: once the worker has published the finished snapshot and both data
\* callbacks keep being invoked, the module eventually consumes a finished
\* snapshot and sets computation_running to false, unless start is pressed
\* again first.
C22_Consumed == ~computation_running /\ previous_result.st = "ready" /\ previous_result.finished
C22_EventuallyFinished ==
    (computation_running /\ FinishedPublished /\ wpc = "exited") ~> (C22_Consumed \/ wpc # "exited")


\* A render callback has replaced the module's result: the arrays are new, or
\* an output is marked as changed.
Fetched ==
    \/ vertices' # vertices /\ vertices'.st = "ready"
    \/ ~mesh_output_changed /\ mesh_output_changed'
    \/ ~data_output_changed /\ data_output_changed'

\* C23: a snapshot is fetched only while computation_running is set and both
\* outputs have taken the previous one (neither mesh_output_changed nor
\* data_output_changed is set), and computation_running, once cleared by stop
\* or by a finished snapshot, is set again only by the start button.
C23_Step ==
    /\ Fetched => computation_running /\ ~mesh_output_changed /\ ~data_output_changed
    /\ ~computation_running /\ computation_running' => StartCallback
C23_FetchGuard == [][C23_Step]_vars
\* A snapshot was consumed and handed to both outputs, and the next is ready.
C23_Witness ==
    /\ previous_result.st = "ready" /\ vertices = previous_result
    /\ computation_running /\ ~mesh_output_changed /\ ~data_output_changed
    /\ Ready(last_result)


\* The chunks [0,B), [B,2B), ... of n particles, and what one kernel call
\* makes of a particle.
NumChunks(n, B) == (n + B - 1) \div B
Chunks(n, B) ==
    [k \in 1..NumChunks(n, B) |-> [offset |-> (k - 1) * B, size |-> Min(B, n - (k - 1) * B)]]
IntegratedOnce(p) ==
    IF p.termination = 0
    THEN kernel_thread(call.field, call.sign, call.num_integration_steps, p)
    ELSE p

C25_Ends ==
    (upc = "entry" /\ call.num_particles_per_batch >= 1
                   /\ to_unsigned(Len(input)) + call.num_particles_per_batch <= OffsetModulus)
        ~> (upc \in {"returned", "thrown"})
C25_Spins ==
    (/\ upc \notin {"idle", "entry"}
     /\ call.num_particles_per_batch = 0 /\ to_unsigned(Len(input)) > 0)
        => upc # "returned" /\ offset = 0
C25_Termination == C25_Ends /\ []C25_Spins
\* The call with the first batch size has returned after several batches; the
\* call with batch size 0 on the same particles is launching kernels without
\* end.
C25_Witness ==
    /\ run = 2 /\ batch_sizes[1] >= 1 /\ batch_sizes[2] = 0
    /\ Len(input) > batch_sizes[1] /\ Len(input) + batch_sizes[1] <= OffsetModulus
    /\ Len(launches) = MaxLaunches /\ offset = 0 /\ upc = "loop"


\* C26: when a call of update_labels has ended, by returning or by throwing
\* on a failed allocation or transfer, none of the four device buffers is
\* allocated any more.
C26_BuffersFreed ==
    upc \in {"returned", "thrown"} =>
        \A k \in DOMAIN BufferNames : ~device[BufferNames[k]].alloc


\* The element of particle p in the array a.
ArrayOf(a, p) ==
    CASE a = "labels" -> p.label
      [] a = "distances" -> p.dist
      [] a = "terminations" -> p.termination
      [] a = "source" -> p.pos

Attempting == thread.kpc = "loop" /\ thread.method = 1 /\ thread.j < thread.num_steps
Attempted == attempt(thread.field, thread.l.pos, thread.step, thread.sign)

\* C28: an attempt of the adaptive integrator whose normalized error exceeds 1
\* commits no position, multiplies the time step by a factor in [0.1, 0.9)
\* and is followed by another attempt of the same step; an attempt with an
\* error of at most 1 commits the fifth-order estimate and multiplies the
\* time step by min(5.0, 0.9 * error^-0.2); the position changes nowhere else
\* in the step.
C28_Step ==
    /\ Attempting /\ Attempted.error > MaxError =>
        /\ thread'.l.pos = thread.l.pos
        /\ \E f \in 10..89 : thread'.step = scaled(thread.step, f)
        /\ thread'.kpc = "loop" /\ thread'.j = thread.j
    /\ Attempting /\ Attempted.error <= MaxError =>
        /\ thread'.l.pos = Attempted.output_position
        /\ thread'.step = scaled(thread.step, Min(500, 90 * grow_root(Attempted.error)))
        /\ thread'.kpc = "check"
    /\ thread.method = 1 /\ ~Attempting => thread'.l.pos = thread.l.pos \/ thread.kpc = "guard"
C28_StepControl == [][C28_Step]_vars
\* An attempt was accepted after rejected ones and moved the particle, with a
\* time step below the initial one.
C28_Witness ==
    /\ thread.method = 1 /\ thread.kpc = "check"
    /\ thread.attempts >= 2 /\ thread.l.pos # thread.prev

\* The accepted attempt of a step of advectRK45 came after rejected ones and
\* left the particle where it was: the step was shrunk until it moves nothing.
ShrunkToNothing ==
    /\ thread.kpc = "check" /\ thread.method = 1
    /\ thread.attempts >= 1 /\ thread.l.pos = thread.prev

\* C29: a step of the adaptive integrator makes a bounded number of retries,
\* and a particle whose step is rejected until it moves nothing is marked
\* termination = 2 and leaves the loop, so that the kernel call ends.
C29_Step ==
    /\ thread.attempts < RetryBound
    /\ ShrunkToNothing => thread'.l.termination = 2 /\ thread'.kpc = "store"
C29_BoundedRetries == [][C29_Step]_vars

\* advectRK45 as a whole: the attempts of one step up to the accepted one.
RECURSIVE advectRK45(_, _, _, _)
advectRK45(field, pos, delta, sign) ==
    LET a == attempt(field, pos, delta, sign)
    IN IF a.decreased THEN advectRK45(field, pos, a.delta, sign)
       ELSE [pos |-> a.output_position, delta |-> a.delta]
\* The loop of one kernel call with the adaptive method, the adapted time
\* step handed from each step to the next.
RECURSIVE integrate_adaptive(_, _, _, _, _)
integrate_adaptive(field, sign, s, step, j) ==
    IF j = 0 THEN s
    ELSE LET adv == advectRK45(field, s.pos, step, sign)
             ld == update_label_and_dist_structures(adv.pos,
                       [label |-> s.label, dist |-> s.dist])
             t == [pos |-> adv.pos, label |-> ld.label, dist |-> ld.dist,
                   termination |-> s.termination]
         IN IF adv.pos = s.pos
            THEN [t EXCEPT !.termination = stagnated_termination(adv.pos)]
            ELSE IF outside(adv.pos)
                 THEN [t EXCEPT !.termination = 1]
                 ELSE integrate_adaptive(field, sign, t, adv.delta, j - 1)
\* One kernel call on the particle p: what it writes back.
kernel_call(method, field, sign, n_steps, p) ==
    IF p.termination # 0 THEN p
    ELSE IF method = 0 THEN kernel_thread(field, sign, n_steps, p)
    ELSE LET ld == update_label_and_dist_structures(p.pos,
                       [label |-> short(p.label), dist |-> p.dist])
         IN integrate_adaptive(field, sign,
                [pos |-> p.pos, label |-> ld.label, dist |-> ld.dist,
                 termination |-> short(p.termination)], initial_step(p.pos), n_steps)
\* The second of the two kernel calls has returned; the result of one call
\* with the steps of both.
BothRoundsDone == thread.kpc = "done" /\ thread.round = 2
SingleCall ==
    kernel_call(thread.method, thread.field, thread.sign,
                thread.rounds[1] + thread.rounds[2], thread.seed)

\* C30: with advectRK4, a kernel call of N steps followed by one of M steps
\* on the values written back leaves every particle with the position, label,
\* distance and termination of one call of N + M steps; with advectRK45 every
\* kernel call starts from the configured time step times the step-size
\* hint, whatever the step was adapted to before.
C30_RoundSplitting ==
    /\ BothRoundsDone /\ thread.method = 0 => thread.g = SingleCall
    /\ thread.method = 1 /\ thread.kpc = "loop" /\ thread.j = 0 /\ thread.attempts = 0
          => thread.step = initial_step(thread.l.pos)
\* Two calls of the adaptive method end elsewhere than one call with the
\* steps of both, the particle having moved in both calls.
C30_Witness ==
    /\ BothRoundsDone /\ thread.method = 1
    /\ thread.rounds[1] >= 1 /\ thread.rounds[2] >= 1
    /\ thread.g # SingleCall


\* One step of the classical Runge-Kutta scheme from pos, every field
\* evaluation multiplied by the step scale num / den.
RungeKutta4(field, pos, num, den) ==
    LET k(at) == <<(num * velocity(field, at)[1]) \div den,
                   (num * velocity(field, at)[2]) \div den>>
        k1 == k(pos)
        k2 == k(<<pos[1] + k1[1] \div 2, pos[2] + k1[2] \div 2>>)
        k3 == k(<<pos[1] + k2[1] \div 2, pos[2] + k2[2] \div 2>>)
        k4 == k(VecAdd(pos, k3))
    IN <<pos[1] + (k1[1] + 2 * k2[1] + 2 * k3[1] + k4[1]) \div 6,
         pos[2] + (k1[2] + 2 * k2[2] + 2 * k3[2] + k4[2]) \div 6>>
\* The value of the step-size texture at pos, in units: cell_diag at every
\* node, 0 outside.
step_size_hint(pos) == initial_step(pos) \div TimeScale
\* The thread is about to take a step of advectRK4.
SteppingRK4 == thread.kpc = "loop" /\ thread.method = 0 /\ thread.j < thread.num_steps

\* C31 as stated: the step scale of the four evaluations of advectRK4 is the
\* value of the step-size texture at the particle times the configured
\* timestep times the sign.
C31_TextureStep ==
    SteppingRK4 =>
        thread'.l.pos = RungeKutta4(thread.field, thread.l.pos,
                            step_size_hint(thread.l.pos) * TimeScale * thread.sign, Fixed)
C31_VelocityStep ==
    SteppingRK4 =>
        LET max_velocity == length(velocity(thread.field, thread.l.pos))
        IN thread'.l.pos =
               IF max_velocity > 0
               THEN RungeKutta4(thread.field, thread.l.pos,
                                CellSize * TimeScale * thread.sign, max_velocity)
               ELSE thread.l.pos
SeededAtZero == velocity(thread.field, thread.seed.pos) = <<0, 0>>
StepRequested ==
    thread.rounds[1] >= 1 \/ (thread.round = 2 /\ thread.rounds[2] >= 1)

\* C32: a particle seeded where the field is zero is stopped by its first
\* step under either integrator: the step is taken without a retry and leaves
\* the position unchanged, the termination code becomes 2 or 3, and no
\* second step is taken however many were requested.
C32_ZeroFieldStops ==
    SeededAtZero =>
        /\ thread.l.pos = thread.seed.pos /\ thread.g.pos = thread.seed.pos
        /\ thread.attempts = 0
        /\ thread.j <= 1
        /\ thread.j = 1 => thread.l.termination \in {2, 3}
        /\ thread.kpc = "done" /\ StepRequested => thread.g.termination \in {2, 3}
\* The adaptive integrator was asked for two steps in each of two calls on a
\* particle seeded at a zero of the sink field, and both calls have returned.
C32_Witness ==
    /\ SeededAtZero /\ thread.method = 1 /\ thread.field = "sink"
    /\ thread.rounds = <<2, 2>> /\ thread.round = 2 /\ thread.kpc = "done"
    /\ thread.g.termination = 2


\* The kernel call that has returned is the one in which the particle left
\* the domain.
LeftInThisCall == thread.kpc = "done" /\ thread.g.termination = 1 /\ thread.j >= 1

\* C33: in the build that uses the final position only, a particle whose
\* position leaves the domain is written back with the label -1 and the
\* distance 0.
C33_OutsideLabel ==
    LeftInThisCall => thread.g.label = -1 /\ thread.g.dist = 0


\* The configuration of the most recently constructed object, and the step
\* in which worker w launches a kernel.
LatestConfiguration == cuda.instances[cuda.objects].config
Launches(w) == cuda'.calls[w].launches = cuda.calls[w].launches + 1

\* C34: all objects share one implementation instance.  Once a constructor
\* has returned, the instance of the object made before is destroyed and only
\* the new one is alive, and every kernel launch of a call of update_labels
\* made from then on, through whichever object, runs on the field, the
\* constants and the method of the most recently constructed object.
C34_Step ==
    /\ cuda.making = 0 /\ cuda.objects >= 1 =>
        /\ \A i \in DOMAIN cuda.instances : cuda.instances[i].alive <=> i = cuda.impl
        /\ cuda.impl = cuda.objects /\ cuda.textures = cuda.impl
        /\ cuda.const_data = LatestConfiguration
    /\ \A w \in CudaWorkers :
        Launches(w) /\ cuda.making = 0 /\ cuda.calls[w].seen = cuda.objects =>
            /\ cuda'.last.constants = LatestConfiguration
            /\ cuda'.last.field = LatestConfiguration
            /\ cuda'.last.method = LatestConfiguration
C34_SharedInstance == [][C34_Step]_vars
\* A call through the first object, made after the second object was
\* constructed with another configuration, has launched a kernel on the
\* configuration of the second.
C34_Witness ==
    /\ cuda.objects = 2 /\ cuda.making = 0
    /\ cuda.instances[1].config # cuda.instances[2].config
    /\ cuda.last.via = 1 /\ cuda.calls[cuda.last.worker].seen = 2
    /\ cuda.last.method = cuda.instances[2].config
    /\ cuda.last.field = cuda.instances[2].config


LoadReturns ==
    \/ cpc = "idle" /\ LoadCallback /\ cpc' = "idle"
    \/ cpc = "join_load" /\ cpc' = "idle"
\* The reset of a load can run here without waiting.
LoadRuns ==
    \/ cpc = "idle" /\ ~reset_blocks(Mod, Comp)
    \/ cpc = "join_load" /\ wpc = "exited"

\* C36: a load with a connected reader leaves no worker, no running
\* computation and no previous_result, whether it succeeds or not; after a
\* failed read or a failed load of the input there is no computation, after a
\* successful load there is a new one, and a save then fails; a load without
\* a reader changes nothing.
C36_Step ==
    /\ LoadReturns =>
        \/ cpc = "idle" /\ UNCHANGED vars
        \/ previous_result' = NoResult /\ ~computation_running' /\ wpc' = "none"
    /\ LoadRuns =>
        \A read_ok, input_ok \in BOOLEAN, prev \in LoadedResults :
            LET r == load_computation_callback(Mod, Comp, read_ok, input_ok, prev)
            IN /\ r.m.previous_result = NoResult
               /\ r.m.computation <=> read_ok /\ input_ok
               /\ r.c.wpc = "none"
               /\ \A writer_ok \in BOOLEAN : ~save_computation_callback(r.m, writer_ok).ok
C36_LoadResets == [][C36_Step]_vars
\* A computation was loaded over one that had produced a snapshot, and a
\* save issued before any new snapshot was consumed has failed.
C36_Witness ==
    /\ computation /\ wpc = "none" /\ num_integration_steps_performed >= 1
    /\ vertices # NoResult /\ previous_result = NoResult
    /\ saved.called /\ saved.writer_ok /\ ~saved.ok


\* C37: whatever callbacks have run, the variable parameters are read-only
\* exactly when computation_running is true, and the fixed parameters exactly
\* when there is a computation object.
C37_ReadOnly ==
    /\ readonly_variable <=> computation_running
    /\ readonly_fixed <=> computation
\* A computation has finished after at least one step and its finished
\* snapshot was consumed: the fixed parameters are read-only, the variable
\* ones are not.
C37_Witness ==
    /\ computation /\ ~computation_running /\ readonly_fixed /\ ~readonly_variable
    /\ previous_result.finished /\ previous_result.steps >= 1 /\ wpc = "exited"

InShort(id) == id >= -32768 /\ id <= 32767
\* C38: a label passes through the kernel unchanged only within the range of
\* a signed 16-bit number: the thread reads the label it was handed into a
\* short and writes the short back, and whenever a structure becomes the
\* nearest one recorded, the label is the id of that structure if the id
\* lies in [-32768, 32767] and differs from the id if it lies outside.
C38_Step ==
    InKernel =>
        /\ (thread.kpc = "guard" /\ thread'.kpc = "init") => thread'.l.label = thread.g.label
        /\ (thread.kpc = "store" /\ thread'.kpc = "done") => thread'.g.label = thread.l.label
        /\ thread'.l.dist < thread.l.dist =>
            /\ thread'.l.dist = FirstNearest(thread'.l.pos).d
            /\ InShort(FirstNearest(thread'.l.pos).id) =>
                   thread'.l.label = FirstNearest(thread'.l.pos).id
            /\ ~InShort(FirstNearest(thread'.l.pos).id) =>
                   thread'.l.label # FirstNearest(thread'.l.pos).id
C38_ShortLabels == [][C38_Step]_vars
\* The point, whose id is the largest short, labelled the particle in the
\* first round; in the second round the line segment, whose id is one more,
\* has become the nearest structure and the label differs from its id.
C38_Witness ==
    /\ thread.kpc = "store" /\ thread.round = 2
    /\ ids.point_ids[1] = 32767 /\ thread.g.label = 32767
    /\ ids.line_ids[1] = 32768 /\ thread.l.label = -32768
    /\ thread.l.dist < thread.g.dist
====
